---- MODULE Spec2Model ----
(***************************************************************************)
(* Model of the Meraki replacement portal's server core:                   *)
(*   src/config/meraki.js  MerakiAPI.validateDevices / replaceDevice       *)
(*   src/routes/api.js     POST /validate-devices, POST /replace-device    *)
(* Every awaited remote call is one action; the synchronous code that      *)
(* follows it up to the next await (or the return) is part of that action. *)
(* The remote platform is a small mutable world (which network reports a   *)
(* device, whose inventory lists it) that answers truthfully unless a      *)
(* transient fault is injected.                                            *)
(***************************************************************************)
EXTENDS Integers, Sequences, FiniteSets, TLC

VARIABLES
    rq,         \* per request: the handler's position and local variables
    calls,      \* every remote call issued so far, in order
    devNets,    \* platform: serial -> set of networks reporting the device
    invOrg,     \* platform: serial -> organization whose inventory lists it
    invNet,     \* platform: serial -> networkId of its inventory record
    devName,    \* platform: serial -> device name (hostname)
    devNotes,   \* platform: serial -> device notes
    devFields,  \* platform: serial -> tags, address, coordinates, floor plan
    probe,      \* the last direct application of a pure helper: input, output
    portal      \* the page in the browser: fields, buttons, requests in flight

vars == <<rq, calls, devNets, invOrg, invNet, devName, devNotes, devFields, probe, portal>>
platform == <<devNets, invOrg, invNet, devName, devNotes, devFields>>

----------------------------------------------------------------------------
(* Bounds and universe *)

MaxPorts == 2

Reqs == {1, 2}
ActiveReqs == {1}

NoOrg == "noOrg"
NoNet == "noNet"
NoSerial == "noSerial"

\* Text (names, notes) is a sequence of pieces; Space is a piece of whitespace,
\* so that trim() is computed.  NoName is the absent or empty string.
Space == " "
NoName == <<>>

RECURSIVE TrimStart(_)
TrimStart(text) ==
    IF text # <<>> /\ Head(text) = Space THEN TrimStart(Tail(text)) ELSE text

RECURSIVE TrimEnd(_)
TrimEnd(text) ==
    IF text # <<>> /\ text[Len(text)] = Space
    THEN TrimEnd(SubSeq(text, 1, Len(text) - 1)) ELSE text

\* String.prototype.trim
Trim(text) == TrimEnd(TrimStart(text))

\* MERAKI_ORGS, in configuration order (this.organizations is a Map:
\* iteration is insertion order).
Organizations == <<"A", "B">>
Orgs == {Organizations[i] : i \in 1..Len(Organizations)}
UnconfiguredOrg == "X"

\* The platform's network list of each organization, in the order returned.
NetworksOf(o) ==
    CASE o = "A" -> <<"a1", "a2">>
      [] o = "B" -> <<"b1">>
      [] OTHER   -> <<>>

SeqToSet(q) == {q[i] : i \in 1..Len(q)}
Nets == UNION {SeqToSet(NetworksOf(o)) : o \in Orgs}
OrgOfNet(n) == CHOOSE o \in Orgs : n \in SeqToSet(NetworksOf(o))

Serials == {"S1", "S2"}
Malformed == "BAD!"
RawSerials == Serials \cup {Malformed}

\* further spellings of serial S1 a request can carry: in lower case, and
\* with surrounding whitespace
LowerCase == "s1"
Padded == " S1 "
AnySerials == RawSerials \cup {LowerCase, Padded}

\* String.prototype.toUpperCase, and the trim() sanitizer, on these spellings
toUpperCase(raw) == IF raw = LowerCase THEN "S1" ELSE raw
trimSerial(raw) == IF raw = Padded THEN "S1" ELSE raw

----------------------------------------------------------------------------
(* Messages are sequences of words, so that substring tests are computed *)

Includes(msg, pat) ==
    \E i \in 0..(Len(msg) - Len(pat)) : SubSeq(msg, i + 1, i + Len(pat)) = pat

AlreadyClaimed == <<"already", "claimed">>

ClaimedHereMsg == <<"Device", "is", "already", "claimed", "in", "this", "network">>
ClaimedElsewhereMsg == <<"Device", "is", "already", "claimed", "by", "another", "network">>
NotInInventoryMsg == <<"Device", "not", "found", "in", "inventory">>

MsgNotFound == <<"Resource not found. Please check the serial numbers and organization access.">>
MsgForbidden == <<"Access forbidden. Please check API key permissions for this organization.">>
MsgRateLimit == <<"Rate limit exceeded. Please try again in a moment.">>
MsgNone == <<>>

MsgUndefined == <<"undefined">>

\* An error object: status 0 means there is no error.response (a timeout, a
\* locally thrown Error); hasErrors says that response.data.errors is present
\* and errors is that list (<<>> when absent).
HttpError(status, errs) ==
    [status |-> status, hasErrors |-> (errs # <<>>), errors |-> errs,
     message |-> <<"Request failed with status code">>]
LocalError(msg) == [status |-> 0, hasErrors |-> FALSE, errors |-> <<>>, message |-> msg]
Timeout ==
    [status |-> 0, hasErrors |-> FALSE, errors |-> <<>>,
     message |-> <<"timeout of 30000ms exceeded">>]
NoError == [status |-> 0, hasErrors |-> FALSE, errors |-> <<>>, message |-> MsgNone]
NotFound404 == HttpError(404, <<>>)

\* The transient faults a remote call can end in instead of its answer.
Faults == {Timeout}

\* seeded fault: the status is looked at before the errors list
formatErrorMessageStatusFirst(error) ==
    IF error.status = 404 THEN MsgNotFound
    ELSE IF error.status = 403 THEN MsgForbidden
    ELSE IF error.status = 429 THEN MsgRateLimit
    ELSE IF error.hasErrors
    THEN (IF error.errors # <<>> THEN error.errors[1] ELSE MsgUndefined)
    ELSE error.message

formatErrorMessage(error) ==
    IF error.hasErrors
    THEN (IF error.errors # <<>> THEN error.errors[1] ELSE MsgUndefined)
    ELSE IF error.status = 404 THEN MsgNotFound
    ELSE IF error.status = 403 THEN MsgForbidden
    ELSE IF error.status = 429 THEN MsgRateLimit
    ELSE error.message

----------------------------------------------------------------------------
(* The platform's truthful answers *)

\* GET /networks/{n}/devices/{sr} through the client of organization c
DeviceReported(c, n, sr) ==
    /\ n \in SeqToSet(NetworksOf(c))
    /\ n \in devNets[sr]

\* the device record GET /networks/{n}/devices/{sr} answers with
\* a field of a device record: missing (undefined or null) or holding v
Missing(v) == [has |-> FALSE, v |-> v]
Field(v) == [has |-> TRUE, v |-> v]

\* a device record without tags, address, coordinates and floor plan
NoFields ==
    [tags |-> Missing(<<>>), address |-> Missing(<<>>), lat |-> Missing(0),
     lng |-> Missing(0), floorPlanId |-> Missing("")]

\* a device record with all of them
Ap1Fields ==
    [tags |-> Field(<<"lobby">>), address |-> Field(<<"1", "Main", "St">>),
     lat |-> Field(37), lng |-> Field(-122), floorPlanId |-> Field("fp1")]

\* PUT /networks/{networkId}/devices/{serial}: the fields of the body replace
\* the record's, the others stay
PutFields(record, body) ==
    [f \in DOMAIN record |-> IF body[f].has THEN body[f] ELSE record[f]]

Device(sr) ==
    [name |-> devName[sr], notes |-> devNotes[sr], fields |-> devFields[sr]]

\* GET /organizations/{c}/inventoryDevices: the serials listed
Inventory(c) == {sr \in Serials : invOrg[sr] = c}

\* POST /networks/{n}/devices/claim {serials: [sr]}: the error, or NoError
ClaimAnswer(c, n, sr) ==
    IF n \notin SeqToSet(NetworksOf(c)) THEN NotFound404
    ELSE IF invOrg[sr] # c THEN HttpError(400, <<NotInInventoryMsg>>)
    ELSE IF n \in devNets[sr] THEN HttpError(400, <<ClaimedHereMsg>>)
    ELSE IF invNet[sr] # NoNet THEN HttpError(400, <<ClaimedElsewhereMsg>>)
    ELSE NoError

----------------------------------------------------------------------------
(* Request state *)

NoValidation ==
    [returned |-> FALSE, success |-> FALSE, networkId |-> NoNet,
     organizationId |-> NoOrg, message |-> MsgNone, enriched |-> FALSE,
     \* devices.failed.serial, devices.replacement.serial, organizationName
     failed |-> NoSerial, replacement |-> NoSerial, organizationName |-> <<>>]

NoResult ==
    [returned |-> FALSE, success |-> FALSE, message |-> MsgNone,
     operations |-> <<>>, summary |-> FALSE, configurationTypes |-> <<>>]

NoResponse == [sent |-> FALSE, status |-> 0, success |-> FALSE, body |-> "none"]

InitReq ==
    [pc |-> "idle", mode |-> "none",
     \* the serials as the request carries them (req.body, req.params)
     params |-> [failedSerial |-> NoSerial, replacementSerial |-> NoSerial],
     failedSerial |-> NoSerial, replacementSerial |-> NoSerial,
     \* validateDevices locals
     orgIdx |-> 0, networks |-> <<>>, netIdx |-> 0,
     failedDevice |-> FALSE, networkId |-> NoNet, foundOrganizationId |-> NoOrg,
     replacementNetworkId |-> NoNet,
     validation |-> NoValidation,
     \* replaceDevice arguments and locals
     argNetworkId |-> NoNet, argOrganizationId |-> NoOrg,
     operations |-> <<>>, failedName |-> NoName, failedNotes |-> <<>>,
     radioSettings |-> FALSE, switchPorts |-> -1, portIdx |-> 0,
     configName |-> NoName, configNotes |-> <<>>,
     failedFields |-> NoFields, configData |-> NoFields,
     \* the operations log: the log file ("off": LOG_TO_FILE is not 'true';
     \* "unwritable": appendFileSync throws), the records handed to logOperation
     logFile |-> "off", logged |-> <<>>,
     result |-> NoResult,
     \* the read-only methods: getAllOrganizationsInfo's organizations,
     \* searchDeviceAcrossOrganizations' results, getNetworks' allNetworks,
     \* the message of a failed getOrganizationInfo
     organizations |-> <<>>, results |-> <<>>, allNetworks |-> <<>>,
     infoMessage |-> MsgNone,
     \* the organizations summary of GET /health
     health |-> [total |-> 0, accessible |-> 0],
     \* the message errorHandler answered with
     handlerMessage |-> MsgNone,
     response |-> NoResponse]

\* one remote call and how it ended (error = NoError: it answered with data)
Call(r, fn, step, kind, client, net, serial, error) ==
    [req |-> r, fn |-> fn, step |-> step, kind |-> kind, client |-> client,
     net |-> net, serial |-> serial, error |-> error,
     \* the position of the port in the fetched list (switch-port updates)
     port |-> 0,
     ok |-> (error = NoError), fault |-> (error \in Faults)]

----------------------------------------------------------------------------
(* The route handlers' synchronous parts and the returns of the two methods *)

\* serialValidation: /^[A-Z0-9]{4}-[A-Z0-9]{4}-[A-Z0-9]{4}$/i
\* seeded fault: the pattern accepts malformed text
MatchesLeniently(raw) == raw \in Serials \cup {LowerCase, Malformed}

Matches(raw) == raw \in Serials \cup {LowerCase}

Respond(s, status, success, body) ==
    [s EXCEPT !.pc = "done",
              !.response = [sent |-> TRUE, status |-> status,
                            success |-> success, body |-> body]]

Op(step) == [step |-> step, status |-> "in-progress", error |-> MsgNone]

\* operations[i].status = "completed"
Complete(operations, i) == [operations EXCEPT ![i].status = "completed"]

\* logOperation(status, details)
logOperation(s, status) ==
    [s EXCEPT !.logged = Append(@, [status |-> status,
                                    persisted |-> (s.logFile = "writable")])]

\* replaceDevice returned `result`: the caller continues
replaceReturn(s, result) ==
    LET t == [s EXCEPT !.result = result] IN
    IF s.mode = "replace"
    THEN Respond(t, 200, result.success, "replace")
    ELSE [t EXCEPT !.pc = "done"]

\* seeded fault: every record is marked failed, the completed ones too
MarkFailedEvery(operations, error) ==
    [i \in DOMAIN operations |->
        [operations[i] EXCEPT !.status = "failed", !.error = error.message]]

\* seeded fault: the current record is left as it is
MarkFailedNot(operations, error) == operations

\* "Mark current operation as failed"
MarkFailed(operations, error) ==
    IF Len(operations) > 0
    THEN [operations EXCEPT ![Len(operations)].status = "failed",
                            ![Len(operations)].error = error.message]
    ELSE operations

\* the catch block of replaceDevice
replaceCatch(s, error) ==
    LET ops == MarkFailed(s.operations, error)
        t   == logOperation([s EXCEPT !.operations = ops], "FAILED")
    IN  replaceReturn(t, [returned |-> TRUE, success |-> FALSE,
                          message |-> formatErrorMessage(error),
                          operations |-> ops, summary |-> FALSE,
                          configurationTypes |-> <<>>])

NoClientMsg == <<"No API client configured for organization">>

\* seeded fault: the step-1 record is pushed before getClient is called
replaceDeviceEntryPushFirst(s, networkId, organizationId) ==
    LET t == [s EXCEPT !.argNetworkId = networkId,
                       !.argOrganizationId = organizationId,
                       !.operations = <<Op(1)>>]
    IN  IF organizationId \in Orgs
        THEN [t EXCEPT !.pc = "r_getDevice"]
        ELSE replaceCatch(t, LocalError(NoClientMsg))

\* replaceDevice up to its first await: getClient, then the step-1 record
replaceDeviceEntry(s, networkId, organizationId) ==
    LET t == [s EXCEPT !.argNetworkId = networkId,
                       !.argOrganizationId = organizationId,
                       !.operations = <<>>]
    IN  IF organizationId \in Orgs
        THEN [t EXCEPT !.pc = "r_getDevice", !.operations = <<Op(1)>>]
        ELSE replaceCatch(t, LocalError(NoClientMsg))

\* seeded fault: the replacement runs in the first configured organization
ReplaceArgsFirstOrg(validation) ==
    [networkId |-> validation.networkId, organizationId |-> Organizations[1]]

\* the arguments POST /replace-device passes on to replaceDevice
ReplaceArgs(validation) ==
    [networkId |-> validation.networkId, organizationId |-> validation.organizationId]

\* seeded fault: POST /replace-device goes on whatever the validation says
validateReturnProceed(s, validation) ==
    LET t == [s EXCEPT !.validation = validation] IN
    IF s.mode = "validate" THEN Respond(t, 200, validation.success, "validation")
    ELSE replaceDeviceEntry(t, ReplaceArgs(validation).networkId,
                               ReplaceArgs(validation).organizationId)

\* seeded fault: POST /validate-devices goes on to replace after a success
validateReturnReplaces(s, validation) ==
    LET t == [s EXCEPT !.validation = validation] IN
    IF ~validation.success THEN Respond(t, 200, FALSE, "validation")
    ELSE replaceDeviceEntry(t, ReplaceArgs(validation).networkId,
                               ReplaceArgs(validation).organizationId)

\* validateDevices returned `validation`: the route continues
validateReturn(s, validation) ==
    LET t == [s EXCEPT !.validation = validation] IN
    IF s.mode = "validate" THEN Respond(t, 200, validation.success, "validation")
    ELSE IF ~validation.success THEN Respond(t, 200, FALSE, "validation")
    ELSE replaceDeviceEntry(t, ReplaceArgs(validation).networkId,
                               ReplaceArgs(validation).organizationId)

\* organization.name as GET /organizations/{orgId} reports it
OrganizationName(o) == <<"Org", o>>

\* seeded fault: validateDevices lets the error escape to the route's catch
validateCatchRethrow(s, error) == Respond(s, 500, FALSE, "internal")

\* the catch block of validateDevices
validateCatch(s, error) ==
    validateReturn(s, [returned |-> TRUE, success |-> FALSE, networkId |-> NoNet,
                       organizationId |-> NoOrg,
                       message |-> formatErrorMessage(error), enriched |-> FALSE,
                       failed |-> NoSerial, replacement |-> NoSerial,
                       organizationName |-> <<>>])

NotFoundWords ==
    <<"Failed", "device", "not", "found", "in", "any", "of", "the",
      "configured", "organizations:">>

\* seeded fault: the message names only the organization searched last
FailedNotFoundMsgLastOrg == NotFoundWords \o <<Organizations[Len(Organizations)]>>

\* `... organizations: ${Array.from(this.organizations.keys()).join(', ')}`
FailedNotFoundMsg == NotFoundWords \o Organizations

ReplacementNotFoundMsg ==
    <<"Replacement", "device", "not", "found", "in", "organization", "inventory.",
      "Device", "must", "be", "in", "the", "same", "organization">>

ClaimedByNetworkMsg(n) ==
    <<"Replacement", "device", "is", "already", "claimed", "by", "network:", n>>

\* seeded fault: the search gives up after the organization at hand
NextOrganizationGiveUp(s) == validateCatch(s, LocalError(FailedNotFoundMsg))

\* the organization loop moves on (continue / end of the body at line 162)
NextOrganization(s) ==
    IF s.orgIdx < Len(Organizations)
    THEN [s EXCEPT !.pc = "v_getOrganization", !.orgIdx = @ + 1,
                   !.networks = <<>>, !.netIdx = 0]
    ELSE validateCatch(s, LocalError(FailedNotFoundMsg))

\* seeded fault: a failed device lookup skips the rest of the organization
NextNetworkSkipOrganization(s) == NextOrganization(s)

\* the network loop moves on (continue at lines 154, 157)
NextNetwork(s) ==
    IF s.netIdx < Len(s.networks)
    THEN [s EXCEPT !.netIdx = @ + 1]
    ELSE NextOrganization(s)

\* seeded fault: the network loop starts at the last network of the list
OnGetNetworksFromLast(s, e, networks) ==
    IF e # NoError THEN NextOrganization(s)
    ELSE IF Len(networks) = 0 THEN NextOrganization(s)
    ELSE [s EXCEPT !.pc = "v_getDevice", !.networks = networks,
                   !.netIdx = Len(networks)]

\* the networks of the organization were listed, or the listing threw and the
\* organization is skipped; the network loop starts at the head of the list
OnGetNetworks(s, e, networks) ==
    IF e # NoError THEN NextOrganization(s)
    ELSE IF Len(networks) = 0 THEN NextOrganization(s)
    ELSE [s EXCEPT !.pc = "v_getDevice", !.networks = networks, !.netIdx = 1]

\* seeded fault: the match is recorded but the network loop is not left
DeviceFoundNoBreak(s, orgId, networkId) ==
    LET t == [s EXCEPT !.failedDevice = TRUE, !.networkId = networkId,
                       !.foundOrganizationId = orgId]
    IN  IF t.netIdx < Len(t.networks)
        THEN [t EXCEPT !.netIdx = @ + 1]
        ELSE [t EXCEPT !.pc = "v_getInventory"]

\* the device lookup answered with data: record the match, leave both loops
DeviceFound(s, orgId, networkId) ==
    [s EXCEPT !.failedDevice = TRUE, !.networkId = networkId,
              !.foundOrganizationId = orgId, !.pc = "v_getInventory"]

\* seeded fault: a failed status fetch fails the validation
OnGetStatusesFatal(s, e) ==
    IF e # NoError THEN validateCatch(s, e)
    ELSE validateReturn(s, [returned |-> TRUE, success |-> TRUE,
                            networkId |-> s.networkId,
                            organizationId |-> s.foundOrganizationId,
                            message |-> MsgNone, enriched |-> TRUE,
                            failed |-> s.failedSerial,
                            replacement |-> s.replacementSerial,
                            organizationName |->
                                OrganizationName(s.foundOrganizationId)])

\* getEnhancedDeviceInfo returned the device with its status, or caught the
\* error and returned the device as it was; then the success return
OnGetStatuses(s, e) ==
    validateReturn(s, [returned |-> TRUE, success |-> TRUE,
                       networkId |-> s.networkId,
                       organizationId |-> s.foundOrganizationId,
                       message |-> MsgNone, enriched |-> (e = NoError),
                       failed |-> s.failedSerial,
                       replacement |-> s.replacementSerial,
                       organizationName |->
                           OrganizationName(s.foundOrganizationId)])

\* seeded fault: the inventory of whichever organization lists the replacement
InventoryOrgOfReplacement(s) ==
    IF invOrg[s.replacementSerial] \in Orgs
    THEN invOrg[s.replacementSerial] ELSE s.foundOrganizationId

\* the organization whose inventory is searched for the replacement
InventoryOrg(s) == s.foundOrganizationId

\* router.post: validation middleware, then validateDevices up to its first await
RouteEntry(s) ==
    LET failedSerial == trimSerial(s.failedSerial)
        replacementSerial == trimSerial(s.replacementSerial)
        t == [s EXCEPT !.failedSerial = toUpperCase(failedSerial),
                       !.replacementSerial = toUpperCase(replacementSerial)]
    IN  IF ~(Matches(failedSerial) /\ Matches(replacementSerial))
        THEN Respond(s, 400, FALSE, "format")
        ELSE IF Len(Organizations) = 0
        THEN validateCatch(t, LocalError(FailedNotFoundMsg))
        ELSE [t EXCEPT !.pc = "v_getOrganization", !.orgIdx = 1]

----------------------------------------------------------------------------
(* Actions: requests arrive *)

\* POST /validate-devices or POST /replace-device with a JSON body whose
\* serials are drawn from `raws`
ReceiveFrom(r, raws) ==
    /\ rq[r].pc = "idle"
    /\ \E mode \in {"validate", "replace"}, fs \in raws, rs \in raws :
         rq' = [rq EXCEPT ![r] = RouteEntry([rq[r] EXCEPT !.mode = mode,
                                   !.params = [failedSerial |-> fs,
                                               replacementSerial |-> rs],
                                   !.failedSerial = fs, !.replacementSerial = rs])]
    /\ UNCHANGED <<calls, platform, probe, portal>>

\* ... with serials in their canonical spelling, or malformed
Receive(r) == ReceiveFrom(r, RawSerials)

\* ... with serials in any spelling
ReceiveAny(r) == ReceiveFrom(r, AnySerials)

\* POST /replace-device for the pair (S1, S2)
ReceiveReplace(r) ==
    /\ rq[r].pc = "idle"
    /\ rq' = [rq EXCEPT ![r] = RouteEntry([rq[r] EXCEPT !.mode = "replace",
                                  !.params = [failedSerial |-> "S1",
                                              replacementSerial |-> "S2"],
                                  !.failedSerial = "S1",
                                  !.replacementSerial = "S2"])]
    /\ UNCHANGED <<calls, platform, probe, portal>>

\* merakiAPI.replaceDevice called with arguments of the caller's choosing
Invoke(r) ==
    /\ rq[r].pc = "idle"
    /\ \E fs \in Serials, rs \in Serials, n \in Nets, o \in Orgs \cup {UnconfiguredOrg} :
         rq' = [rq EXCEPT ![r] = replaceDeviceEntry([rq[r] EXCEPT !.mode = "direct",
                                   !.failedSerial = fs, !.replacementSerial = rs], n, o)]
    /\ UNCHANGED <<calls, platform, probe, portal>>

----------------------------------------------------------------------------
(* Actions: validateDevices, one per awaited call *)

Answers(truth) == {truth} \cup Faults

\* GET /organizations/{orgId}
validateDevices_getOrganization(r) ==
    LET s == rq[r]
        o == Organizations[s.orgIdx]
    IN  /\ s.pc = "v_getOrganization"
        /\ \E e \in Answers(NoError) :
             /\ calls' = Append(calls, Call(r, "validate", 0, "getOrganization", o,
                                            NoNet, NoSerial, e))
             /\ rq' = [rq EXCEPT ![r] = IF e = NoError
                                        THEN [s EXCEPT !.pc = "v_getNetworks"]
                                        ELSE NextOrganization(s)]
        /\ UNCHANGED <<platform, probe, portal>>

\* GET /organizations/{orgId}/networks
validateDevices_getNetworks(r) ==
    LET s == rq[r]
        o == Organizations[s.orgIdx]
    IN  /\ s.pc = "v_getNetworks"
        /\ \E e \in Answers(NoError) :
             /\ calls' = Append(calls, Call(r, "validate", 0, "getNetworks", o,
                                            NoNet, NoSerial, e))
             /\ rq' = [rq EXCEPT ![r] = OnGetNetworks(s, e, NetworksOf(o))]
        /\ UNCHANGED <<platform, probe, portal>>

\* GET /networks/{network.id}/devices/{failedSerial}
validateDevices_getDevice(r) ==
    LET s == rq[r]
        o == Organizations[s.orgIdx]
        n == s.networks[s.netIdx]
        truth == IF DeviceReported(o, n, s.failedSerial) THEN NoError ELSE NotFound404
    IN  /\ s.pc = "v_getDevice"
        /\ \E e \in Answers(truth) :
             /\ calls' = Append(calls, Call(r, "validate", 0, "getDevice", o,
                                            n, s.failedSerial, e))
             /\ rq' = [rq EXCEPT ![r] = IF e = NoError THEN DeviceFound(s, o, n)
                                        ELSE NextNetwork(s)]
        /\ UNCHANGED <<platform, probe, portal>>

\* GET /organizations/{foundOrganizationId}/inventoryDevices
validateDevices_getInventory(r) ==
    LET s == rq[r]
        c == InventoryOrg(s)
        rs == s.replacementSerial
    IN  /\ s.pc = "v_getInventory"
        /\ \E e \in Answers(NoError) :
             /\ calls' = Append(calls, Call(r, "validate", 0, "getInventory", c,
                                            NoNet, NoSerial, e))
             /\ rq' = [rq EXCEPT ![r] =
                          IF e # NoError THEN validateCatch(s, e)
                          ELSE IF rs \notin Inventory(c)
                          THEN validateCatch(s, LocalError(ReplacementNotFoundMsg))
                          ELSE IF invNet[rs] # NoNet /\ invNet[rs] # s.networkId
                          THEN [s EXCEPT !.pc = "v_getClaimedNetwork",
                                         !.replacementNetworkId = invNet[rs]]
                          ELSE [s EXCEPT !.pc = "v_getStatuses",
                                         !.replacementNetworkId = invNet[rs]]]
        /\ UNCHANGED <<platform, probe, portal>>

\* GET /networks/{replacementDevice.networkId}, then the claim-conflict error
validateDevices_getClaimedNetwork(r) ==
    LET s == rq[r]
        c == s.foundOrganizationId
        n == s.replacementNetworkId
        truth == IF n \in SeqToSet(NetworksOf(c)) THEN NoError ELSE NotFound404
    IN  /\ s.pc = "v_getClaimedNetwork"
        /\ \E e \in Answers(truth) :
             /\ calls' = Append(calls, Call(r, "validate", 0, "getNetwork", c,
                                            n, NoSerial, e))
             /\ rq' = [rq EXCEPT ![r] =
                          IF e # NoError THEN validateCatch(s, e)
                          ELSE validateCatch(s, LocalError(ClaimedByNetworkMsg(n)))]
        /\ UNCHANGED <<platform, probe, portal>>

\* GET /organizations/{organizationId}/devices/statuses, then the success return
getEnhancedDeviceInfo(r) ==
    LET s == rq[r]
        c == s.foundOrganizationId
    IN  /\ s.pc = "v_getStatuses"
        /\ \E e \in Answers(NoError) :
             /\ calls' = Append(calls, Call(r, "validate", 0, "getStatuses", c,
                                            NoNet, NoSerial, e))
             /\ rq' = [rq EXCEPT ![r] = OnGetStatuses(s, e)]
        /\ UNCHANGED <<platform, probe, portal>>

----------------------------------------------------------------------------
(* Actions: replaceDevice, one per awaited call *)

\* seeded fault: every claim error is swallowed
ClaimAlwaysAbsorbed(error) == TRUE

\* seeded fault: no claim error is swallowed
ClaimNeverAbsorbed(error) == FALSE

\* error.response?.data?.errors?.[0]?.includes('already claimed')
ClaimAbsorbed(error) ==
    /\ error.errors # <<>>
    /\ Includes(error.errors[1], AlreadyClaimed)

\* seeded fault: the trimmed name is copied
ConfigNameTrimmed(name, replacementSerial) ==
    IF name # NoName /\ Trim(name) # <<>> THEN Trim(name) ELSE <<replacementSerial>>

\* configData.name: the failed device's name, else the replacement's serial
ConfigName(name, replacementSerial) ==
    IF name # NoName /\ Trim(name) # <<>> THEN name ELSE <<replacementSerial>>

\* `[Replaced ${failedSerial} on ${new Date().toISOString()}]`
ReplacementNote(failedSerial) == <<"[Replaced", failedSerial, "on", "timestamp]">>

\* seeded fault: the marker replaces the notes
ConfigNotesOverwrite(notes, failedSerial) == ReplacementNote(failedSerial)

\* configData.notes: the failed device's notes, a blank and the marker
ConfigNotes(notes, failedSerial) ==
    IF Trim(notes) # <<>>
    THEN notes \o <<Space>> \o ReplacementNote(failedSerial)
    ELSE ReplacementNote(failedSerial)

\* configData apart from name and notes: each test is JavaScript truthiness
\* ([] is truthy; '', 0, undefined and null are not)
ConfigData(failedDevice) ==
    LET tags == failedDevice.tags
        address == failedDevice.address
        lat == failedDevice.lat
        lng == failedDevice.lng
        floorPlanId == failedDevice.floorPlanId
        coordinates == (lat.has /\ lat.v # 0) /\ (lng.has /\ lng.v # 0)
    IN  [tags |-> IF tags.has /\ Len(tags.v) > 0 THEN tags ELSE Missing(<<>>),
         address |-> IF (address.has /\ address.v # <<>>) /\ Trim(address.v) # <<>>
                     THEN address ELSE Missing(<<>>),
         lat |-> IF coordinates THEN lat ELSE Missing(0),
         lng |-> IF coordinates THEN lng ELSE Missing(0),
         floorPlanId |-> IF floorPlanId.has /\ floorPlanId.v # ""
                         THEN floorPlanId ELSE Missing("")]

\* step 3 has applied everything: record it, open step 4
BeginStep4(s) ==
    [s EXCEPT !.pc = "r_remove",
              !.operations = Append(Complete(@, 3), Op(4))]

\* after the radio settings: the switch-port loop, if any port was fetched
AfterRadio(s) ==
    IF s.switchPorts > 0
    THEN [s EXCEPT !.pc = "r_putPort", !.portIdx = 1]
    ELSE BeginStep4(s)

\* after the base configuration update
AfterUpdate(s) ==
    IF s.radioSettings THEN [s EXCEPT !.pc = "r_putRadio"] ELSE AfterRadio(s)

\* the claim went through or was absorbed: record it, open step 3
BeginStep3(s) ==
    [s EXCEPT !.pc = "r_update",
              !.operations = Append(Complete(@, 2), Op(3)),
              !.configName = ConfigName(s.failedName, s.replacementSerial),
              !.configNotes = ConfigNotes(s.failedNotes, s.failedSerial),
              !.configData = ConfigData(s.failedFields)]

\* summary.configurationTypes; radioSettings and switchPorts are what step 1
\* fetched (null when the fetch failed; an empty port list is not null)
ConfigurationTypes(s) ==
    <<"Hostname", "Device location and tags">>
      \o (IF s.radioSettings THEN <<"Wireless radio settings">> ELSE <<>>)
      \o (IF s.switchPorts # -1 THEN <<"Switch port settings">> ELSE <<>>)

\* seeded fault: an unwritable log file makes logOperation throw
replaceSuccessLogThrows(s) ==
    LET ops == Complete(s.operations, 4)
        t   == logOperation([s EXCEPT !.operations = ops], "SUCCESS")
    IN  IF s.logFile = "unwritable"
        THEN replaceCatch([s EXCEPT !.operations = ops],
                          LocalError(<<"EACCES: permission denied">>))
        ELSE replaceReturn(t, [returned |-> TRUE, success |-> TRUE,
                               message |-> <<"Device replacement completed successfully">>,
                               operations |-> ops, summary |-> TRUE,
                               configurationTypes |-> ConfigurationTypes(s)])

\* the success return of replaceDevice
replaceSuccess(s) ==
    LET ops == Complete(s.operations, 4)
        t   == logOperation([s EXCEPT !.operations = ops], "SUCCESS")
    IN  replaceReturn(t, [returned |-> TRUE, success |-> TRUE,
                          message |-> <<"Device replacement completed successfully">>,
                          operations |-> ops, summary |-> TRUE,
                          configurationTypes |-> ConfigurationTypes(s)])

\* step 1: the failed device's record was read, or the read threw
OnGetDevice(s, e, device) ==
    IF e = NoError
    THEN [s EXCEPT !.pc = "r_getRadio", !.failedName = device.name,
                   !.failedNotes = device.notes,
                   !.failedFields = device.fields]
    ELSE replaceCatch(s, e)

\* seeded fault: a failed read of the radio settings is retried once
OnGetRadioRetryOnce(s, e) ==
    IF e # NoError /\ s.portIdx = 0
    THEN [s EXCEPT !.portIdx = 1]
    ELSE [s EXCEPT !.pc = "r_getSwitchPorts", !.radioSettings = (e = NoError)]

\* seeded fault: a failed read of the radio settings is rethrown
OnGetRadioRethrow(s, e) ==
    IF e = NoError
    THEN [s EXCEPT !.pc = "r_getSwitchPorts", !.radioSettings = TRUE]
    ELSE replaceCatch(s, e)

\* step 1: the radio settings were read, or the read threw and was caught
\* (404: "not a wireless device"; anything else: a warning)
OnGetRadio(s, e) ==
    [s EXCEPT !.pc = "r_getSwitchPorts", !.radioSettings = (e = NoError)]

\* step 1: the switch ports were read, or the read threw and was caught;
\* either way step 1 is recorded as completed and step 2 opens
OnGetSwitchPorts(s, e, ports) ==
    [s EXCEPT !.pc = "r_claim",
              !.switchPorts = IF e = NoError THEN ports ELSE -1,
              !.operations = Append(Complete(@, 1), Op(2))]

\* step 2: claimed, already claimed (absorbed), or the claim threw
OnClaim(s, e) ==
    IF e = NoError \/ ClaimAbsorbed(e) THEN BeginStep3(s) ELSE replaceCatch(s, e)

\* seeded fault: a failed base configuration update is only logged
OnUpdateIgnoreError(s, e) == AfterUpdate(s)

\* step 3: the base configuration was written, or the update threw
OnUpdate(s, e) ==
    IF e = NoError THEN AfterUpdate(s) ELSE replaceCatch(s, e)

\* seeded fault: a failed radio update leaves the switch ports out
OnPutRadioSkipPorts(s, e) ==
    IF e = NoError THEN AfterRadio(s) ELSE BeginStep4(s)

\* step 3: the radio settings were written, or the write threw and was caught
OnPutRadio(s, e) == AfterRadio(s)

\* seeded fault: a failed port update is caught inside the loop
OnPutPortContinue(s, e) ==
    IF s.portIdx < s.switchPorts
    THEN [s EXCEPT !.portIdx = @ + 1]
    ELSE BeginStep4(s)

\* step 3: one port was written, or the write threw and was caught outside
\* the loop, which ends the loop
OnPutPort(s, e) ==
    IF e = NoError /\ s.portIdx < s.switchPorts
    THEN [s EXCEPT !.portIdx = @ + 1]
    ELSE BeginStep4(s)

\* seeded fault: a removal answered 404 counts as done
OnRemoveAbsorbNotFound(s, e) ==
    IF e = NoError \/ e = NotFound404 THEN replaceSuccess(s) ELSE replaceCatch(s, e)

\* seeded fault: a failed removal is treated as best effort
OnRemoveIgnoreError(s, e) == replaceSuccess(s)

\* step 4: the failed device was removed, or the removal threw
OnRemove(s, e) ==
    IF e = NoError THEN replaceSuccess(s) ELSE replaceCatch(s, e)

\* seeded fault: a failed removal rolls the claim of the replacement back
Step4EffectRollback(s, e) ==
    LET n == s.argNetworkId
        fs == s.failedSerial
        rs == s.replacementSerial
    IN  IF e = NoError
        THEN /\ devNets' = [devNets EXCEPT ![fs] = @ \ {n}]
             /\ invNet' = [invNet EXCEPT ![fs] = IF @ = n THEN NoNet ELSE @]
        ELSE /\ devNets' = [devNets EXCEPT ![rs] = @ \ {n}]
             /\ invNet' = [invNet EXCEPT ![rs] = IF @ = n THEN NoNet ELSE @]

\* what step 4 and the handling of its failure do to the platform
Step4Effect(s, e) ==
    LET n == s.argNetworkId
        fs == s.failedSerial
    IN  IF e = NoError
        THEN /\ devNets' = [devNets EXCEPT ![fs] = @ \ {n}]
             /\ invNet' = [invNet EXCEPT ![fs] = IF @ = n THEN NoNet ELSE @]
        ELSE UNCHANGED <<devNets, invNet>>

\* GET /networks/{networkId}/devices/{failedSerial}
replaceDevice_getDevice(r) ==
    LET s == rq[r]
        c == s.argOrganizationId
        n == s.argNetworkId
        truth == IF DeviceReported(c, n, s.failedSerial) THEN NoError ELSE NotFound404
    IN  /\ s.pc = "r_getDevice"
        /\ \E e \in Answers(truth) :
             /\ calls' = Append(calls, Call(r, "replace", 1, "getDevice", c, n,
                                            s.failedSerial, e))
             /\ rq' = [rq EXCEPT ![r] = OnGetDevice(s, e, Device(s.failedSerial))]
        /\ UNCHANGED <<platform, probe, portal>>

\* GET .../devices/{failedSerial}/wireless/radio/settings (best effort)
replaceDevice_getRadio(r) ==
    LET s == rq[r]
    IN  /\ s.pc = "r_getRadio"
        /\ \E e \in Answers(NoError) \cup {NotFound404} :
             /\ calls' = Append(calls, Call(r, "replace", 1, "getRadio",
                                            s.argOrganizationId, s.argNetworkId,
                                            s.failedSerial, e))
             /\ rq' = [rq EXCEPT ![r] = OnGetRadio(s, e)]
        /\ UNCHANGED <<platform, probe, portal>>

\* GET .../devices/{failedSerial}/switch/ports (best effort), then step 2 opens
replaceDevice_getSwitchPorts(r) ==
    LET s == rq[r]
    IN  /\ s.pc = "r_getSwitchPorts"
        /\ \E e \in Answers(NoError) \cup {NotFound404}, ports \in 0..MaxPorts :
             /\ e # NoError => ports = 0
             /\ calls' = Append(calls, Call(r, "replace", 1, "getSwitchPorts",
                                            s.argOrganizationId, s.argNetworkId,
                                            s.failedSerial, e))
             /\ rq' = [rq EXCEPT ![r] = OnGetSwitchPorts(s, e, ports)]
        /\ UNCHANGED <<platform, probe, portal>>

\* POST /networks/{networkId}/devices/claim {serials: [replacementSerial]}
replaceDevice_claim(r) ==
    LET s == rq[r]
        c == s.argOrganizationId
        n == s.argNetworkId
        rs == s.replacementSerial
    IN  /\ s.pc = "r_claim"
        /\ \E e \in Answers(ClaimAnswer(c, n, rs)) :
             /\ calls' = Append(calls, Call(r, "replace", 2, "claim", c, n, rs,
                                            e))
             /\ rq' = [rq EXCEPT ![r] = OnClaim(s, e)]
             /\ IF e = NoError
                THEN /\ devNets' = [devNets EXCEPT ![rs] = @ \cup {n}]
                     /\ invNet' = [invNet EXCEPT ![rs] = n]
                ELSE UNCHANGED <<devNets, invNet>>
        /\ UNCHANGED <<invOrg, devName, devNotes, devFields, probe, portal>>

\* PUT /networks/{networkId}/devices/{replacementSerial} configData
replaceDevice_update(r) ==
    LET s == rq[r]
        c == s.argOrganizationId
        n == s.argNetworkId
        rs == s.replacementSerial
        truth == IF DeviceReported(c, n, rs) THEN NoError ELSE NotFound404
    IN  /\ s.pc = "r_update"
        /\ \E e \in Answers(truth) :
             /\ calls' = Append(calls, Call(r, "replace", 3, "update", c, n, rs,
                                            e))
             /\ rq' = [rq EXCEPT ![r] = OnUpdate(s, e)]
             /\ devName' = IF e = NoError
                           THEN [devName EXCEPT ![rs] = s.configName]
                           ELSE devName
             /\ devNotes' = IF e = NoError
                            THEN [devNotes EXCEPT ![rs] = s.configNotes]
                            ELSE devNotes
             /\ devFields' = IF e = NoError
                             THEN [devFields EXCEPT ![rs] = PutFields(@, s.configData)]
                             ELSE devFields
        /\ UNCHANGED <<devNets, invOrg, invNet, probe, portal>>

\* PUT .../devices/{replacementSerial}/wireless/radio/settings (best effort)
replaceDevice_putRadio(r) ==
    LET s == rq[r]
    IN  /\ s.pc = "r_putRadio"
        /\ \E e \in Answers(NoError) :
             /\ calls' = Append(calls, Call(r, "replace", 3, "putRadio",
                                            s.argOrganizationId, s.argNetworkId,
                                            s.replacementSerial, e))
             /\ rq' = [rq EXCEPT ![r] = OnPutRadio(s, e)]
        /\ UNCHANGED <<platform, probe, portal>>

\* PUT .../devices/{replacementSerial}/switch/ports/{portId}, one port per call;
\* the first failure leaves the loop (the try block encloses the loop)
replaceDevice_putPort(r) ==
    LET s == rq[r]
    IN  /\ s.pc = "r_putPort"
        /\ \E e \in Answers(NoError) :
             /\ calls' = Append(calls,
                               [Call(r, "replace", 3, "putPort",
                                     s.argOrganizationId, s.argNetworkId,
                                     s.replacementSerial, e)
                                   EXCEPT !.port = s.portIdx])
             /\ rq' = [rq EXCEPT ![r] = OnPutPort(s, e)]
        /\ UNCHANGED <<platform, probe, portal>>

\* POST /networks/{networkId}/devices/{failedSerial}/remove, then the return
replaceDevice_remove(r) ==
    LET s == rq[r]
        c == s.argOrganizationId
        n == s.argNetworkId
        fs == s.failedSerial
        truth == IF DeviceReported(c, n, fs) THEN NoError ELSE NotFound404
    IN  /\ s.pc = "r_remove"
        /\ \E e \in Answers(truth) :
             /\ calls' = Append(calls, Call(r, "replace", 4, "remove", c, n, fs,
                                            e))
             /\ rq' = [rq EXCEPT ![r] = OnRemove(s, e)]
             /\ Step4Effect(s, e)
        /\ UNCHANGED <<invOrg, devName, devNotes, devFields, probe, portal>>

----------------------------------------------------------------------------
(* Specification *)

MaxPresence == 2

NoProbe == [fn |-> "none"]

\* the page as the constructor of MerakiReplacementPortal and resetForm
\* leave it: empty fields, both buttons disabled, nothing in flight; `last`
\* is how the validate-devices request that completed last ended, `replaced`
\* whether a replace-device request has completed since
\* the page as the constructor finds it: validationState as the constructor
\* sets it, the fields and the buttons as resetForm() leaves them
NoPortal ==
    [failedSerial |-> "", replacementSerial |-> "",
     validationState |-> [failedSerial |-> FALSE, replacementSerial |-> FALSE],
     validateBtn |-> [disabled |-> TRUE], replaceBtn |-> [disabled |-> TRUE],
     validating |-> 0, replacing |-> 0, timers |-> 0,
     last |-> "none", replaced |-> FALSE]

\* where the platform holds one device: the networks reporting it and its
\* inventory record (organization, networkId), consistent with each other
Placements ==
    {p \in [nets : SUBSET Nets, org : Orgs \cup {NoOrg}, net : Nets \cup {NoNet}] :
        /\ Cardinality(p.nets) <= MaxPresence
        /\ p.nets = {} <=> p.net = NoNet
        /\ p.net # NoNet => (p.net \in p.nets /\ p.org = OrgOfNet(p.net))}

Init ==
    /\ rq = [r \in Reqs |-> InitReq]
    /\ calls = <<>>
    /\ \E place \in [Serials -> Placements] :
         /\ devNets = [sr \in Serials |-> place[sr].nets]
         /\ invOrg = [sr \in Serials |-> place[sr].org]
         /\ invNet = [sr \in Serials |-> place[sr].net]
    /\ devName = [sr \in Serials |-> IF sr = "S1" THEN <<"ap-1">> ELSE NoName]
    /\ devNotes = [sr \in Serials |-> IF sr = "S1" THEN <<"rack-4">> ELSE <<>>]
    /\ devFields = [sr \in Serials |-> IF sr = "S1" THEN Ap1Fields ELSE NoFields]
    /\ probe = NoProbe
    /\ portal = NoPortal

Next ==
    \E r \in ActiveReqs :
        \/ Receive(r)
        \/ Invoke(r)
        \/ validateDevices_getOrganization(r)
        \/ validateDevices_getNetworks(r)
        \/ validateDevices_getDevice(r)
        \/ validateDevices_getInventory(r)
        \/ validateDevices_getClaimedNetwork(r)
        \/ getEnhancedDeviceInfo(r)
        \/ replaceDevice_getDevice(r)
        \/ replaceDevice_getRadio(r)
        \/ replaceDevice_getSwitchPorts(r)
        \/ replaceDevice_claim(r)
        \/ replaceDevice_update(r)
        \/ replaceDevice_putRadio(r)
        \/ replaceDevice_putPort(r)
        \/ replaceDevice_remove(r)

Spec == Init /\ [][Next]_vars

----------------------------------------------------------------------------
(* Specification of repeated replacements: replaceDevice is run on a device *)
(* whose name and notes vary, with a log file that may be unwritable, and   *)
(* is run again once a first run has succeeded.                             *)

LogFiles == {"off", "writable", "unwritable"}
NameSamples == {NoName, <<Space>>, <<"ap-1">>, <<Space, "ap-1">>}
NoteSamples == {<<>>, <<Space>>, <<"rack-4">>}

InitConfig ==
    /\ \E f \in LogFiles : rq = [r \in Reqs |-> [InitReq EXCEPT !.logFile = f]]
    /\ calls = <<>>
    /\ devNets = [sr \in Serials |-> IF sr = "S1" THEN {"a1"} ELSE {}]
    /\ invOrg = [sr \in Serials |-> "A"]
    /\ invNet = [sr \in Serials |-> IF sr = "S1" THEN "a1" ELSE NoNet]
    /\ \E name \in NameSamples, notes \in NoteSamples :
         /\ devName = [sr \in Serials |-> IF sr = "S1" THEN name ELSE NoName]
         /\ devNotes = [sr \in Serials |-> IF sr = "S1" THEN notes ELSE <<>>]
    /\ devFields = [sr \in Serials |-> IF sr = "S1" THEN Ap1Fields ELSE NoFields]
    /\ probe = NoProbe
    /\ portal = NoPortal

\* the second run starts after a first run that met no fault has succeeded
Turn(r) ==
    \/ r = 1
    \/ /\ rq[1].result.success
       /\ \A i \in DOMAIN calls : ~calls[i].fault

NextConfig ==
    \E r \in Reqs :
        /\ Turn(r)
        /\ \/ Invoke(r)
           \/ replaceDevice_getDevice(r)
           \/ replaceDevice_getRadio(r)
           \/ replaceDevice_getSwitchPorts(r)
           \/ replaceDevice_claim(r)
           \/ replaceDevice_update(r)
           \/ replaceDevice_putRadio(r)
           \/ replaceDevice_putPort(r)
           \/ replaceDevice_remove(r)

SpecConfig == InitConfig /\ [][NextConfig]_vars

----------------------------------------------------------------------------
(* Specification of two concurrent POST /replace-device requests for the    *)
(* same pair.  Node runs one handler at a time and may pass to the other    *)
(* handler at every await; the number of such passes in one behaviour is    *)
(* bounded by MaxSwitches.  The platform answers every call (timeouts are   *)
(* met in the specifications of a single request): what fails here fails    *)
(* because of what the other request did.                                   *)

MaxSwitches == 2

\* how often the call log passes from one request to the other
Switches == Cardinality({i \in 1..(Len(calls) - 1) : calls[i].req # calls[i + 1].req})

\* the event loop may resume request r; request 1 is the one whose first
\* call goes out first
Scheduled(r) ==
    IF calls = <<>> THEN rq[r].pc = "idle" \/ r = 1
    ELSE calls[Len(calls)].req = r \/ Switches < MaxSwitches

\* the platform has answered every call so far (no timeout)
Answered == \A i \in DOMAIN calls : ~calls[i].fault

\* the failed device S1 is in a1; the spare S2 is unclaimed, or sits in a2
InitConcurrent ==
    /\ rq = [r \in Reqs |-> InitReq]
    /\ calls = <<>>
    /\ \E spare \in {{}, {"a2"}} :
         /\ devNets = [sr \in Serials |-> IF sr = "S1" THEN {"a1"} ELSE spare]
         /\ invNet = [sr \in Serials |-> IF sr = "S1" THEN "a1"
                                         ELSE IF spare = {} THEN NoNet ELSE "a2"]
    /\ invOrg = [sr \in Serials |-> "A"]
    /\ devName = [sr \in Serials |-> IF sr = "S1" THEN <<"ap-1">> ELSE NoName]
    /\ devNotes = [sr \in Serials |-> IF sr = "S1" THEN <<"rack-4">> ELSE <<>>]
    /\ devFields = [sr \in Serials |-> IF sr = "S1" THEN Ap1Fields ELSE NoFields]
    /\ probe = NoProbe
    /\ portal = NoPortal

NextConcurrent ==
    \E r \in Reqs :
        /\ Scheduled(r)
        /\ \/ ReceiveReplace(r)
           \/ validateDevices_getOrganization(r)
           \/ validateDevices_getNetworks(r)
           \/ validateDevices_getDevice(r)
           \/ validateDevices_getInventory(r)
           \/ validateDevices_getClaimedNetwork(r)
           \/ getEnhancedDeviceInfo(r)
           \/ replaceDevice_getDevice(r)
           \/ replaceDevice_getRadio(r)
           \/ replaceDevice_getSwitchPorts(r)
           \/ replaceDevice_claim(r)
           \/ replaceDevice_update(r)
           \/ replaceDevice_putRadio(r)
           \/ replaceDevice_putPort(r)
           \/ replaceDevice_remove(r)
        /\ Answered'

SpecConcurrent == InitConcurrent /\ [][NextConcurrent]_vars

----------------------------------------------------------------------------
(* Specification of the payload of step 3: replaceDevice is run on a failed *)
(* device whose record is drawn with and without tags, address,             *)
(* coordinates and floor plan.                                              *)

TagSamples == {Missing(<<>>), Field(<<>>), Field(<<"lobby">>)}
AddressSamples ==
    {Missing(<<>>), Field(<<>>), Field(<<Space>>), Field(<<"1", "Main", "St">>)}
LatSamples == {Missing(0), Field(0), Field(37)}
LngSamples == {Missing(0), Field(0), Field(-122)}
FloorPlanSamples == {Missing(""), Field("fp1")}

FieldSamples ==
    [tags : TagSamples, address : AddressSamples, lat : LatSamples,
     lng : LngSamples, floorPlanId : FloorPlanSamples]

InitPayload ==
    /\ rq = [r \in Reqs |-> InitReq]
    /\ calls = <<>>
    /\ devNets = [sr \in Serials |-> IF sr = "S1" THEN {"a1"} ELSE {}]
    /\ invOrg = [sr \in Serials |-> "A"]
    /\ invNet = [sr \in Serials |-> IF sr = "S1" THEN "a1" ELSE NoNet]
    /\ devName = [sr \in Serials |-> IF sr = "S1" THEN <<"ap-1">> ELSE NoName]
    /\ devNotes = [sr \in Serials |-> IF sr = "S1" THEN <<"rack-4">> ELSE <<>>]
    /\ \E fields \in FieldSamples :
         devFields = [sr \in Serials |-> IF sr = "S1" THEN fields ELSE NoFields]
    /\ probe = NoProbe
    /\ portal = NoPortal

NextPayload ==
    \E r \in ActiveReqs :
        \/ Invoke(r)
        \/ replaceDevice_getDevice(r)
        \/ replaceDevice_getRadio(r)
        \/ replaceDevice_getSwitchPorts(r)
        \/ replaceDevice_claim(r)
        \/ replaceDevice_update(r)
        \/ replaceDevice_putRadio(r)
        \/ replaceDevice_putPort(r)
        \/ replaceDevice_remove(r)

SpecPayload == InitPayload /\ [][NextPayload]_vars

----------------------------------------------------------------------------
(* The read-only routes and the middleware around the router *)

GetRoutes == {"organizations", "health", "search", "organization", "networks"}

\* one entry of getAllOrganizationsInfo's list
OrgEntry(o, error) ==
    [id |-> o, accessible |-> (error = NoError),
     error |-> IF error = NoError THEN MsgNone ELSE formatErrorMessage(error)]

\* GET /health: organizations.total and organizations.accessible
HealthSummary(organizations) ==
    [total |-> Len(organizations),
     accessible |-> Cardinality({i \in DOMAIN organizations :
                                    organizations[i].accessible})]

\* getAllOrganizationsInfo returned: GET /organizations sends the list,
\* GET /health its summary
AllOrgsReturn(s) ==
    IF s.mode = "health"
    THEN Respond([s EXCEPT !.health = HealthSummary(s.organizations)],
                 200, TRUE, "health")
    ELSE Respond(s, 200, TRUE, s.mode)

\* seeded fault: the first organization error ends the method with a throw
AllOrgsPushThrow(s, error) ==
    IF error # NoError THEN Respond(s, 500, FALSE, "internal")
    ELSE IF s.orgIdx < Len(Organizations)
    THEN [s EXCEPT !.pc = "o_getOrganization", !.orgIdx = @ + 1,
                   !.organizations =
                       Append(@, OrgEntry(Organizations[s.orgIdx], error))]
    ELSE AllOrgsReturn([s EXCEPT !.organizations =
                           Append(@, OrgEntry(Organizations[s.orgIdx], error))])

\* getAllOrganizationsInfo: the entry is pushed, the loop moves on or the
\* method returns and GET /organizations or GET /health answers
AllOrgsPush(s, error) ==
    LET t == [s EXCEPT !.organizations =
                          Append(@, OrgEntry(Organizations[s.orgIdx], error))]
    IN  IF s.orgIdx < Len(Organizations)
        THEN [t EXCEPT !.pc = "o_getOrganization", !.orgIdx = @ + 1]
        ELSE AllOrgsReturn(t)

\* searchDeviceAcrossOrganizations: the organization loop moves on, or the
\* method returns and GET /search-device answers
SearchNextOrganization(s) ==
    IF s.orgIdx < Len(Organizations)
    THEN [s EXCEPT !.pc = "s_getOrganization", !.orgIdx = @ + 1,
                   !.networks = <<>>, !.netIdx = 0]
    ELSE Respond(s, 200, TRUE, "search")

\* searchDeviceAcrossOrganizations: the network loop moves on
SearchNextNetwork(s) ==
    IF s.netIdx < Len(s.networks)
    THEN [s EXCEPT !.pc = "s_getDevice", !.netIdx = @ + 1]
    ELSE SearchNextOrganization(s)

\* seeded fault: the first match ends the search
OnSearchDeviceBreak(s, e, o, n) ==
    IF e = NoError
    THEN Respond([s EXCEPT !.results =
                     Append(@, [organizationId |-> o, networkId |-> n])],
                 200, TRUE, "search")
    ELSE SearchNextNetwork(s)

\* searchDeviceAcrossOrganizations: the lookup answered with data, which is
\* pushed, or threw; the network loop moves on either way
OnSearchDevice(s, e, o, n) ==
    IF e = NoError
    THEN SearchNextNetwork([s EXCEPT !.results =
                               Append(@, [organizationId |-> o, networkId |-> n])])
    ELSE SearchNextNetwork(s)

\* getNetworks: the organization loop moves on, or GET /networks answers
NetworksNext(s) ==
    IF s.orgIdx < Len(Organizations)
    THEN [s EXCEPT !.orgIdx = @ + 1]
    ELSE Respond(s, 200, TRUE, "networks")

\* router.get: the handler up to its first await
GetEntry(s) ==
    CASE s.mode \in {"organizations", "health"} ->
            IF Len(Organizations) = 0 THEN AllOrgsReturn(s)
            ELSE [s EXCEPT !.pc = "o_getOrganization", !.orgIdx = 1]
      [] s.mode = "search" ->
            IF ~Matches(s.failedSerial) THEN Respond(s, 400, FALSE, "format")
            ELSE IF Len(Organizations) = 0
            THEN Respond([s EXCEPT !.failedSerial = toUpperCase(@)], 200, TRUE, "search")
            ELSE [s EXCEPT !.pc = "s_getOrganization", !.orgIdx = 1,
                           !.failedSerial = toUpperCase(@)]
      [] s.mode = "organization" ->
            IF Len(Organizations) = 0
            THEN Respond([s EXCEPT !.infoMessage = NoClientMsg], 200, FALSE, "organization")
            ELSE [s EXCEPT !.pc = "i_getOrganization"]
      [] OTHER ->
            IF Len(Organizations) = 0 THEN Respond(s, 200, TRUE, "networks")
            ELSE [s EXCEPT !.pc = "n_getNetworks", !.orgIdx = 1]

\* GET /organizations, /health, /search-device/:serial, /organization, /networks
ReceiveGet(r) ==
    /\ rq[r].pc = "idle"
    /\ \E route \in GetRoutes, serial \in AnySerials :
         rq' = [rq EXCEPT ![r] = GetEntry([rq[r] EXCEPT !.mode = route,
                   !.params = [failedSerial |-> IF route = "search" THEN serial
                                                ELSE NoSerial,
                               replacementSerial |-> NoSerial],
                   !.failedSerial = IF route = "search" THEN serial ELSE NoSerial])]
    /\ UNCHANGED <<calls, platform, probe, portal>>

\* getAllOrganizationsInfo: GET /organizations/{orgId}
getAllOrganizationsInfo_getOrganization(r) ==
    LET s == rq[r]
        o == Organizations[s.orgIdx]
    IN  /\ s.pc = "o_getOrganization"
        /\ \E e \in Answers(NoError) :
             /\ calls' = Append(calls, Call(r, "organizations", 0, "getOrganization",
                                            o, NoNet, NoSerial, e))
             /\ rq' = [rq EXCEPT ![r] = IF e = NoError
                                        THEN [s EXCEPT !.pc = "o_getNetworks"]
                                        ELSE AllOrgsPush(s, e)]
        /\ UNCHANGED <<platform, probe, portal>>

\* getAllOrganizationsInfo: GET /organizations/{orgId}/networks
getAllOrganizationsInfo_getNetworks(r) ==
    LET s == rq[r]
        o == Organizations[s.orgIdx]
    IN  /\ s.pc = "o_getNetworks"
        /\ \E e \in Answers(NoError) :
             /\ calls' = Append(calls, Call(r, "organizations", 0, "getNetworks",
                                            o, NoNet, NoSerial, e))
             /\ rq' = [rq EXCEPT ![r] = AllOrgsPush(s, e)]
        /\ UNCHANGED <<platform, probe, portal>>

\* searchDeviceAcrossOrganizations: GET /organizations/{orgId}
searchDevice_getOrganization(r) ==
    LET s == rq[r]
        o == Organizations[s.orgIdx]
    IN  /\ s.pc = "s_getOrganization"
        /\ \E e \in Answers(NoError) :
             /\ calls' = Append(calls, Call(r, "search", 0, "getOrganization",
                                            o, NoNet, NoSerial, e))
             /\ rq' = [rq EXCEPT ![r] = IF e = NoError
                                        THEN [s EXCEPT !.pc = "s_getNetworks"]
                                        ELSE SearchNextOrganization(s)]
        /\ UNCHANGED <<platform, probe, portal>>

\* searchDeviceAcrossOrganizations: GET /organizations/{orgId}/networks
searchDevice_getNetworks(r) ==
    LET s == rq[r]
        o == Organizations[s.orgIdx]
    IN  /\ s.pc = "s_getNetworks"
        /\ \E e \in Answers(NoError) :
             /\ calls' = Append(calls, Call(r, "search", 0, "getNetworks",
                                            o, NoNet, NoSerial, e))
             /\ rq' = [rq EXCEPT ![r] =
                          IF e # NoError THEN SearchNextOrganization(s)
                          ELSE SearchNextNetwork([s EXCEPT !.networks = NetworksOf(o),
                                                          !.netIdx = 0])]
        /\ UNCHANGED <<platform, probe, portal>>

\* searchDeviceAcrossOrganizations: GET /networks/{network.id}/devices/{serial}
searchDevice_getDevice(r) ==
    LET s == rq[r]
        o == Organizations[s.orgIdx]
        n == s.networks[s.netIdx]
        truth == IF DeviceReported(o, n, s.failedSerial) THEN NoError ELSE NotFound404
    IN  /\ s.pc = "s_getDevice"
        /\ \E e \in Answers(truth) :
             /\ calls' = Append(calls, Call(r, "search", 0, "getDevice", o, n,
                                            s.failedSerial, e))
             /\ rq' = [rq EXCEPT ![r] = OnSearchDevice(s, e, o, n)]
        /\ UNCHANGED <<platform, probe, portal>>

\* getOrganizationInfo: GET /organizations/{firstOrgId}
getOrganizationInfo(r) ==
    LET s == rq[r]
    IN  /\ s.pc = "i_getOrganization"
        /\ \E e \in Answers(NoError) :
             /\ calls' = Append(calls, Call(r, "organization", 0, "getOrganization",
                                            Organizations[1], NoNet, NoSerial, e))
             /\ rq' = [rq EXCEPT ![r] =
                          IF e = NoError THEN Respond(s, 200, TRUE, "organization")
                          ELSE Respond([s EXCEPT !.infoMessage = formatErrorMessage(e)],
                                       200, FALSE, "organization")]
        /\ UNCHANGED <<platform, probe, portal>>

\* getNetworks: GET /organizations/{orgId}/networks
getNetworks(r) ==
    LET s == rq[r]
        o == Organizations[s.orgIdx]
    IN  /\ s.pc = "n_getNetworks"
        /\ \E e \in Answers(NoError) :
             /\ calls' = Append(calls, Call(r, "networks", 0, "getNetworks",
                                            o, NoNet, NoSerial, e))
             /\ rq' = [rq EXCEPT ![r] =
                          IF e = NoError
                          THEN NetworksNext([s EXCEPT !.allNetworks = @ \o NetworksOf(o)])
                          ELSE NetworksNext(s)]
        /\ UNCHANGED <<platform, probe, portal>>

\* what reaches errorHandler: err.name, err.code, err.message
HandlerErrors ==
    {[name |-> "SyntaxError", code |-> "none",
      message |-> <<"Unexpected token } in JSON at position 12">>],
     [name |-> "ValidationError", code |-> "none", message |-> <<"invalid">>],
     [name |-> "Error", code |-> "ECONNREFUSED", message |-> <<"connect ECONNREFUSED">>]}

\* err.stack: the message followed by the call frames
StackFrames == <<"at", "Layer.handle">>
Stack(err) == err.message \o StackFrames

\* errorHandler(err, req, res, next)
errorHandler(s, err, production) ==
    IF err.name = "ValidationError"
    THEN Respond([s EXCEPT !.handlerMessage = <<"Validation error">>], 400, FALSE, "error")
    ELSE IF err.code \in {"ENOTFOUND", "ECONNREFUSED"}
    THEN Respond([s EXCEPT !.handlerMessage =
                     <<"Service temporarily unavailable. Please try again later.">>],
                 503, FALSE, "error")
    ELSE Respond([s EXCEPT !.handlerMessage =
                     IF production THEN <<"Internal server error">> ELSE err.message],
                 500, FALSE, "error")

\* a request the router never handles: the rate limiter answers, no route
\* matches, or a middleware passes an error to errorHandler
Middleware(r) ==
    /\ rq[r].pc = "idle"
    /\ LET s == [rq[r] EXCEPT !.mode = "middleware"] IN
       \/ rq' = [rq EXCEPT ![r] = Respond(s, 429, FALSE, "rateLimit")]
       \/ rq' = [rq EXCEPT ![r] = Respond(s, 404, FALSE, "notFound")]
       \/ \E err \in HandlerErrors, production \in BOOLEAN :
             rq' = [rq EXCEPT ![r] = errorHandler(s, err, production)]
    /\ UNCHANGED <<calls, platform, probe, portal>>

\* the message field of the JSON body sent
ResponseMessage(s) ==
    CASE s.response.body = "validation" -> s.validation.message
      [] s.response.body = "replace" -> s.result.message
      [] s.response.body = "organization" -> s.infoMessage
      [] s.response.body = "error" -> s.handlerMessage
      [] s.response.body = "format" -> <<"Validation failed">>
      [] s.response.body = "rateLimit" ->
            <<"Too many requests from this IP, please try again later.">>
      [] s.response.body = "notFound" -> <<"Route not found">>
      [] s.response.body = "health" -> <<"API is healthy">>
      [] OTHER -> MsgNone

PlacementSamples ==
    {[nets |-> {}, org |-> "A", net |-> NoNet],
     [nets |-> {"a1"}, org |-> "A", net |-> "a1"],
     [nets |-> {"a2"}, org |-> "A", net |-> "a2"],
     [nets |-> {"a1", "b1"}, org |-> "A", net |-> "a1"]}

InitRoutes ==
    /\ rq = [r \in Reqs |-> InitReq]
    /\ calls = <<>>
    /\ \E place \in [Serials -> PlacementSamples] :
         /\ devNets = [sr \in Serials |-> place[sr].nets]
         /\ invOrg = [sr \in Serials |-> place[sr].org]
         /\ invNet = [sr \in Serials |-> place[sr].net]
    /\ devName = [sr \in Serials |-> IF sr = "S1" THEN <<"ap-1">> ELSE NoName]
    /\ devNotes = [sr \in Serials |-> IF sr = "S1" THEN <<"rack-4">> ELSE <<>>]
    /\ devFields = [sr \in Serials |-> IF sr = "S1" THEN Ap1Fields ELSE NoFields]
    /\ probe = NoProbe
    /\ portal = NoPortal

NextRoutes ==
    \E r \in ActiveReqs :
        \/ Middleware(r)
        \/ ReceiveAny(r)
        \/ ReceiveGet(r)
        \/ validateDevices_getOrganization(r)
        \/ validateDevices_getNetworks(r)
        \/ validateDevices_getDevice(r)
        \/ validateDevices_getInventory(r)
        \/ validateDevices_getClaimedNetwork(r)
        \/ getEnhancedDeviceInfo(r)
        \/ replaceDevice_getDevice(r)
        \/ replaceDevice_getRadio(r)
        \/ replaceDevice_getSwitchPorts(r)
        \/ replaceDevice_claim(r)
        \/ replaceDevice_update(r)
        \/ replaceDevice_putRadio(r)
        \/ replaceDevice_putPort(r)
        \/ replaceDevice_remove(r)
        \/ getAllOrganizationsInfo_getOrganization(r)
        \/ getAllOrganizationsInfo_getNetworks(r)
        \/ searchDevice_getOrganization(r)
        \/ searchDevice_getNetworks(r)
        \/ searchDevice_getDevice(r)
        \/ getOrganizationInfo(r)
        \/ getNetworks(r)

SpecRoutes == InitRoutes /\ [][NextRoutes]_vars

----------------------------------------------------------------------------
(* Specification of formatErrorMessage applied to the errors a remote call *)
(* can end in.                                                              *)

\* error.response.status of the responses; a request that never got a
\* response (timeout, connection refused) has no status
Statuses == {400, 401, 403, 404, 429, 500, 502, 503}

\* response.data.errors: present or not, and its entries
ErrorLists ==
    {[present |-> FALSE, list |-> <<>>], [present |-> TRUE, list |-> <<>>]}
      \cup {[present |-> TRUE, list |-> l] :
              l \in {<<ClaimedHereMsg>>, <<NotInInventoryMsg>>,
                     <<NotInInventoryMsg, ClaimedHereMsg>>}}

\* error.message
MessageSamples ==
    {<<"Request failed with status code">>, <<"timeout of 30000ms exceeded">>,
     <<"Network Error">>}

ErrorSamples ==
    {[status |-> st, hasErrors |-> el.present, errors |-> el.list, message |-> m] :
        st \in Statuses, el \in ErrorLists, m \in MessageSamples}
      \cup {LocalError(m) : m \in MessageSamples}

InitFormat ==
    /\ rq = [r \in Reqs |-> InitReq]
    /\ calls = <<>>
    /\ devNets = [sr \in Serials |-> {}]
    /\ invOrg = [sr \in Serials |-> NoOrg]
    /\ invNet = [sr \in Serials |-> NoNet]
    /\ devName = [sr \in Serials |-> NoName]
    /\ devNotes = [sr \in Serials |-> <<>>]
    /\ devFields = [sr \in Serials |-> NoFields]
    /\ probe = NoProbe
    /\ portal = NoPortal

\* this.formatErrorMessage(error)
FormatError ==
    /\ \E error \in ErrorSamples :
         probe' = [fn |-> "formatErrorMessage", error |-> error,
                   message |-> formatErrorMessage(error)]
    /\ UNCHANGED <<rq, calls, platform, portal>>

NextFormat == FormatError

SpecFormat == InitFormat /\ [][NextFormat]_vars

----------------------------------------------------------------------------
(* Specification of the constructor applied to values of MERAKI_ORGS.  The  *)
(* value is held split: a sequence of entries (split at ','), each a        *)
(* sequence of parts (split at ':'), each a text, so that trim() and the    *)
(* tests on the parts are computed.                                         *)

MaxEntries == 2

EntrySamples ==
    {<< <<"A">>, <<"k1">> >>,
     << <<Space, "A">>, <<"k1", Space>> >>,
     << <<"A", Space>>, <<Space, "k2">> >>,
     << <<"B">>, <<"k2">> >>,
     << <<"B">> >>,
     << <<"B">>, <<>> >>,
     << <<"B">>, <<Space>> >>,
     << <<>>, <<"k1">> >>,
     << <<Space>>, <<"k1">> >>,
     << <<>> >>}

\* the values of process.env.MERAKI_ORGS: undefined, or a string
MappingSamples ==
    {[present |-> FALSE, entries |-> <<>>]}
      \cup {[present |-> TRUE, entries |-> es] :
              es \in UNION {[1..n -> EntrySamples] : n \in 1..MaxEntries}}

\* the empty string splits into one entry of one empty part
EmptyString == << << <<>> >> >>

\* mapping.trim().split(':'): the whitespace at both ends of the entry goes
TrimEntry(entry) ==
    LET n == Len(entry) IN
    IF n = 1 THEN <<Trim(entry[1])>>
    ELSE <<TrimStart(entry[1])>> \o SubSeq(entry, 2, n - 1) \o <<TrimEnd(entry[n])>>

\* seeded fault: an entry is added even when its organization is there
MapSetAppend(map, key, value) == Append(map, [id |-> key, apiKey |-> value])

\* Map.prototype.set: a new key goes last, a known key keeps its position
MapSet(map, key, value) ==
    IF \E i \in DOMAIN map : map[i].id = key
    THEN [i \in DOMAIN map |->
            IF map[i].id = key THEN [id |-> key, apiKey |-> value] ELSE map[i]]
    ELSE Append(map, [id |-> key, apiKey |-> value])

ConfigurationError(message) ==
    [ok |-> FALSE, message |-> message, organizations |-> <<>>, clients |-> <<>>]

\* the for loop over the mappings, from entry i on
RECURSIVE ParseMappings(_, _, _)
ParseMappings(entries, i, organizations) ==
    IF i > Len(entries)
    THEN [ok |-> TRUE, message |-> MsgNone, organizations |-> organizations,
          clients |-> [k \in DOMAIN organizations |-> organizations[k].id]]
    ELSE LET parts == TrimEntry(entries[i])
             orgId == parts[1]
         IN  IF orgId = <<>> \/ Len(parts) < 2 \/ parts[2] = <<>>
             THEN ConfigurationError(<<"Failed to parse MERAKI_ORGS: Invalid mapping format">>)
             ELSE ParseMappings(entries, i + 1,
                                MapSet(organizations, Trim(orgId), Trim(parts[2])))

\* new MerakiAPI()
constructor(orgMappings) ==
    IF ~orgMappings.present \/ orgMappings.entries = EmptyString
    THEN ConfigurationError(<<"MERAKI_ORGS environment variable is required">>)
    ELSE ParseMappings(orgMappings.entries, 1, <<>>)

Construct ==
    /\ \E orgMappings \in MappingSamples :
         probe' = [fn |-> "constructor", mapping |-> orgMappings,
                   registry |-> constructor(orgMappings)]
    /\ UNCHANGED <<rq, calls, platform, portal>>

NextRegistry == Construct

SpecRegistry == InitFormat /\ [][NextRegistry]_vars

----------------------------------------------------------------------------
(* Specification of one request under fairness: every remote call is        *)
(* answered, by a response or by an error, so a handler waiting at an await *)
(* is eventually resumed.                                                   *)

InitLive == InitRoutes

\* some handler is resumed at the await it is waiting at
Resume ==
    \E r \in ActiveReqs :
        \/ validateDevices_getOrganization(r)
        \/ validateDevices_getNetworks(r)
        \/ validateDevices_getDevice(r)
        \/ validateDevices_getInventory(r)
        \/ validateDevices_getClaimedNetwork(r)
        \/ getEnhancedDeviceInfo(r)
        \/ replaceDevice_getDevice(r)
        \/ replaceDevice_getRadio(r)
        \/ replaceDevice_getSwitchPorts(r)
        \/ replaceDevice_claim(r)
        \/ replaceDevice_update(r)
        \/ replaceDevice_putRadio(r)
        \/ replaceDevice_putPort(r)
        \/ replaceDevice_remove(r)

NextLive ==
    \/ \E r \in ActiveReqs : Receive(r)
    \/ \E r \in ActiveReqs : Invoke(r)
    \/ Resume

SpecLive == InitLive /\ [][NextLive]_vars /\ WF_vars(Resume)

----------------------------------------------------------------------------
(* Specification of the page in the browser (MerakiReplacementPortal): the  *)
(* user edits the two fields, clicks Validate, submits the form; the two    *)
(* requests complete with success, with success:false or with a network     *)
(* error; the reset timer fires.  The server is whatever answers.           *)

MaxInFlight == 2

FieldTypes == {"failedSerial", "replacementSerial"}
FieldValues == {""} \cup AnySerials
Outcomes == {"success", "failure", "error"}

\* /^[A-Z0-9]{4}-[A-Z0-9]{4}-[A-Z0-9]{4}$/ (no i flag)
MatchesExactly(raw) == raw \in Serials

\* validateSerialFormat(serial)
validateSerialFormat(serial) == MatchesExactly(toUpperCase(trimSerial(serial)))

\* formatSerialNumber: what is not a letter or digit goes, the rest is put in
\* upper case and dashed
formatSerialNumber(value) ==
    IF value \in {LowerCase, Padded} THEN "S1" ELSE value

\* updateButtonStates()
updateButtonStates(p) ==
    [p EXCEPT !.validateBtn.disabled =
                  ~(p.validationState.failedSerial
                      /\ p.validationState.replacementSerial)]

\* setButtonLoading(buttonId, isLoading)
setButtonLoading(p, buttonId, isLoading) ==
    [p EXCEPT ![buttonId].disabled = isLoading]

\* the input event of a field: handleSerialInput(event, type)
handleSerialInput(type) ==
    /\ \E value \in FieldValues :
         portal' = updateButtonStates(
                     [portal EXCEPT ![type] = value,
                                    !.validationState[type] =
                                        validateSerialFormat(value)])
    /\ UNCHANGED <<rq, calls, platform, probe>>

\* the keyup event of a field: formatSerialNumber(event)
KeyUp(type) ==
    /\ portal' = [portal EXCEPT ![type] = formatSerialNumber(@)]
    /\ UNCHANGED <<rq, calls, platform, probe>>

\* click on Validate: validateDevices() up to its fetch
ClickValidate ==
    LET failedSerial == toUpperCase(trimSerial(portal.failedSerial))
        replacementSerial == toUpperCase(trimSerial(portal.replacementSerial))
    IN  /\ ~portal.validateBtn.disabled
        /\ portal.validating < MaxInFlight
        /\ portal' =
             IF ~(MatchesExactly(failedSerial) /\ MatchesExactly(replacementSerial))
             THEN portal
             ELSE IF failedSerial = replacementSerial THEN portal
             ELSE [setButtonLoading(portal, "validateBtn", TRUE)
                      EXCEPT !.validating = @ + 1]
        /\ UNCHANGED <<rq, calls, platform, probe>>

\* the fetch of validateDevices() completed: result.success true, false, or
\* the fetch or response.json() threw; then the finally block.  last and
\* replaced are history: the result of the request that returned last, and
\* whether a replacement has completed since; a request that threw returned
\* nothing
ValidateDone ==
    /\ portal.validating > 0
    /\ \E outcome \in Outcomes :
         LET p == CASE outcome = "success" ->
                          [portal EXCEPT !.replaceBtn.disabled = FALSE]
                    [] outcome = "failure" ->
                          [portal EXCEPT !.replaceBtn.disabled = TRUE]
                    [] OTHER -> portal
         IN  portal' = [setButtonLoading(p, "validateBtn", FALSE)
                           EXCEPT !.validating = @ - 1,
                                  !.last = IF outcome = "error" THEN @
                                           ELSE outcome,
                                  !.replaced = IF outcome = "error" THEN @
                                               ELSE FALSE]
    /\ UNCHANGED <<rq, calls, platform, probe>>

\* submit of the form through the Replace button: handleReplacement(event)
\* up to its fetch; the user may cancel the confirmation
SubmitReplace ==
    /\ ~portal.replaceBtn.disabled
    /\ portal.replacing + portal.timers < MaxInFlight
    /\ \E confirmed \in BOOLEAN :
         portal' =
             IF ~confirmed THEN portal
             ELSE [setButtonLoading(portal, "replaceBtn", TRUE)
                      EXCEPT !.validateBtn.disabled = TRUE,
                             !.replacing = @ + 1]
    /\ UNCHANGED <<rq, calls, platform, probe>>

\* the fetch of handleReplacement() completed; a success arms the reset
\* timer; then the finally block
ReplaceDone ==
    /\ portal.replacing > 0
    /\ \E outcome \in Outcomes :
         portal' = [setButtonLoading(portal, "replaceBtn", FALSE)
                       EXCEPT !.validateBtn.disabled = FALSE,
                              !.replacing = @ - 1,
                              !.timers = IF outcome = "success" THEN @ + 1 ELSE @,
                              !.replaced = TRUE]
    /\ UNCHANGED <<rq, calls, platform, probe>>

\* a reset timer fires: resetForm()
resetForm ==
    /\ portal.timers > 0
    /\ portal' = [portal EXCEPT !.failedSerial = "", !.replacementSerial = "",
                                !.replaceBtn.disabled = TRUE,
                                !.validateBtn.disabled = TRUE,
                                !.validationState = [failedSerial |-> FALSE,
                                                     replacementSerial |-> FALSE],
                                !.timers = @ - 1]
    /\ UNCHANGED <<rq, calls, platform, probe>>

NextPortal ==
    \/ \E type \in FieldTypes : handleSerialInput(type)
    \/ \E type \in FieldTypes : KeyUp(type)
    \/ ClickValidate
    \/ ValidateDone
    \/ SubmitReplace
    \/ ReplaceDone
    \/ resetForm

SpecPortal == InitFormat /\ [][NextPortal]_vars

----------------------------------------------------------------------------
(* Specification of apiKeyMasked applied to credentials of every length up  *)
(* to MaxKeyLen.  A credential is a sequence of characters.                 *)

MaxKeyLen == 11

KeyChars == {"a", "b"}

KeySamples == UNION {[1..n -> KeyChars] : n \in 1..MaxKeyLen}

\* String.prototype.substring(start, end): arguments below 0 count as 0,
\* above the length as the length, and are swapped when start > end
Clamp(i, n) == IF i < 0 THEN 0 ELSE IF i > n THEN n ELSE i

substring(str, start, end) ==
    LET a == Clamp(start, Len(str))
        b == Clamp(end, Len(str))
    IN  IF a <= b THEN SubSeq(str, a + 1, b) ELSE SubSeq(str, b + 1, a)

Ellipsis == <<".", ".", ".">>

\* `${apiKey.substring(0, 6)}...${apiKey.substring(apiKey.length - 4)}`
apiKeyMasked(apiKey) ==
    [head |-> substring(apiKey, 0, 6),
     tail |-> substring(apiKey, Len(apiKey) - 4, Len(apiKey))]

\* the entry of one organization: its credential is masked once
MaskKey ==
    /\ probe = NoProbe
    /\ \E apiKey \in KeySamples :
         probe' = [fn |-> "apiKeyMasked", apiKey |-> apiKey,
                   head |-> apiKeyMasked(apiKey).head,
                   tail |-> apiKeyMasked(apiKey).tail,
                   masked |-> apiKeyMasked(apiKey).head \o Ellipsis
                                \o apiKeyMasked(apiKey).tail]
    /\ UNCHANGED <<rq, calls, platform, portal>>

NextMask == MaskKey

SpecMask == InitFormat /\ [][NextMask]_vars

----------------------------------------------------------------------------
(* Vocabulary of the properties *)

Routes == {"validate", "replace"}

\* the calls request r issued inside validateDevices / replaceDevice
CallsOf(r, fn) == {i \in DOMAIN calls : calls[i].req = r /\ calls[i].fn = fn}

SearchKinds == {"getOrganization", "getNetworks", "getDevice"}

\* no claim or removal has changed device ownership yet
PlatformUntouched ==
    \A i \in DOMAIN calls : calls[i].kind \in {"claim", "remove"} => ~calls[i].ok

\* the search of request r has ended (with a match, or exhausted)
SearchOver(s) == s.failedDevice \/ s.validation.returned

\* every search call of r to organization o was answered (no fault)
Reachable(r, o) ==
    \A i \in CallsOf(r, "validate") :
        (calls[i].client = o /\ calls[i].kind \in SearchKinds) => ~calls[i].fault

IsPrefix(p, q) == Len(p) <= Len(q) /\ SubSeq(q, 1, Len(p)) = p

Max(S) == CHOOSE x \in S : \A y \in S : y <= x

\* the platform's two already-claimed answers to a claim request
ClaimedHere == HttpError(400, <<ClaimedHereMsg>>)
ClaimedElsewhere == HttpError(400, <<ClaimedElsewhereMsg>>)

\* call i is a claim that went through or was answered already-claimed
ClaimWentThrough(i) ==
    /\ calls[i].kind = "claim"
    /\ calls[i].ok \/ calls[i].error \in {ClaimedHere, ClaimedElsewhere}

\* call i is a mandatory call of the pipeline that failed
StepFailed(i) ==
    \/ calls[i].kind \in {"getDevice", "update", "remove"} /\ ~calls[i].ok
    \/ calls[i].kind = "claim" /\ ~ClaimWentThrough(i)

AllCompleted(ops) == \A i \in DOMAIN ops : ops[i].status = "completed"

----------------------------------------------------------------------------
(* C1..C10 *)

\* C1: the search of validateDevices is short-circuiting: after a device
\* lookup that answered with the failed device, the request issues no further
\* organization, network-list or device lookup; and when the failed serial is
\* reported by exactly one network, whose organization answered every search
\* call, the search ends with that network and that organization.
C1_ShortCircuitSearch ==
    \A r \in Reqs :
        LET s == rq[r]
            V == CallsOf(r, "validate")
        IN  /\ \A i \in V : (calls[i].kind = "getDevice" /\ calls[i].ok) =>
                   \A j \in V : j > i => calls[j].kind \notin SearchKinds
            /\ (s.mode \in Routes /\ SearchOver(s) /\ PlatformUntouched) =>
                   \A n \in Nets :
                       (devNets[s.failedSerial] = {n} /\ Reachable(r, OrgOfNet(n))) =>
                           /\ s.failedDevice
                           /\ s.networkId = n
                           /\ s.foundOrganizationId = OrgOfNet(n)

\* a validation that matched in the first network of A and went on to the
\* inventory and status calls, leaving a2 and B unvisited
C1_Witness ==
    \E r \in Reqs :
        /\ rq[r].mode = "validate"
        /\ rq[r].validation.success
        /\ rq[r].networkId = "a1"
        /\ devNets[rq[r].failedSerial] = {"a1"}
        /\ \E i \in CallsOf(r, "validate") : calls[i].kind = "getStatuses"

\* C2: a successful validation names the organization and network whose device
\* lookup answered with the failed device, and every remote call of the
\* replaceDevice run of POST /replace-device goes through that organization's
\* client and targets that network.
C2_ReplaceWithinFoundOrganization ==
    \A r \in Reqs :
        LET s == rq[r]
            v == s.validation
        IN  (s.mode \in Routes /\ v.returned /\ v.success) =>
              /\ v.networkId \in SeqToSet(NetworksOf(v.organizationId))
              /\ \E i \in CallsOf(r, "validate") :
                    /\ calls[i].kind = "getDevice" /\ calls[i].ok
                    /\ calls[i].client = v.organizationId
                    /\ calls[i].net = v.networkId
                    /\ calls[i].serial = s.failedSerial
              /\ \A j \in CallsOf(r, "replace") :
                    /\ calls[j].client = v.organizationId
                    /\ calls[j].net = v.networkId

\* a completed replacement in the second organization
C2_Witness ==
    \E r \in Reqs :
        /\ rq[r].mode = "replace"
        /\ rq[r].result.success
        /\ rq[r].validation.organizationId = "B"
        /\ \E j \in CallsOf(r, "replace") : calls[j].kind = "remove" /\ calls[j].client = "B"

\* C3: when the failed device was found in organization A and the replacement
\* is listed only in another organization's inventory, validation returns
\* success:false (replacement not found, unless the inventory call itself
\* failed), and only A's inventory was queried.
C3_ReplacementInOtherOrganization ==
    \A r \in Reqs :
        LET s == rq[r]
            v == s.validation
            A == s.foundOrganizationId
        IN  (s.mode \in Routes /\ v.returned /\ s.failedDevice
             /\ invOrg[s.replacementSerial] \in Orgs \ {A}) =>
              /\ ~v.success
              /\ \A i \in CallsOf(r, "validate") :
                    calls[i].kind = "getInventory" =>
                        /\ calls[i].client = A
                        /\ calls[i].ok => v.message = ReplacementNotFoundMsg

\* the failed device found in B while A, whose inventory lists the
\* replacement, did not answer
C3_Witness ==
    \E r \in Reqs :
        /\ rq[r].validation.returned
        /\ rq[r].foundOrganizationId = "B"
        /\ invOrg[rq[r].replacementSerial] = "A"
        /\ rq[r].validation.message = ReplacementNotFoundMsg
        /\ ~Reachable(r, "A")

\* C4: a validate request with identical failed and replacement serials is
\* rejected with success:false before any remote call is issued.
C4_SameSerialRejected ==
    \A r \in Reqs :
        LET s == rq[r]
        IN  (s.mode \in Routes /\ s.failedSerial = s.replacementSerial) =>
              /\ CallsOf(r, "validate") = {}
              /\ CallsOf(r, "replace") = {}
              /\ s.response.sent => ~s.response.success

\* C5: the remote calls of replaceDevice are issued in step order 1..4; a call
\* of step 2 or later follows a successful read of the failed device, a call
\* of step 3 or later follows a claim that went through (or was answered
\* already-claimed), the removal follows a successful base update; and once a
\* mandatory call has failed it is the last call of the run, which returns
\* success:false.
C5_StepOrder ==
    \A r \in Reqs :
        LET s == rq[r]
            P == CallsOf(r, "replace")
        IN  /\ \A i \in P, j \in P : i < j => calls[i].step <= calls[j].step
            /\ \A j \in P : calls[j].step >= 2 =>
                  \E i \in P : i < j /\ calls[i].kind = "getDevice" /\ calls[i].ok
            /\ \A j \in P : calls[j].step >= 3 =>
                  \E i \in P : i < j /\ ClaimWentThrough(i)
            /\ \A j \in P : calls[j].step = 4 =>
                  \E i \in P : i < j /\ calls[i].kind = "update" /\ calls[i].ok
            /\ \A i \in P : StepFailed(i) =>
                  /\ \A j \in P : j <= i
                  /\ s.result.returned /\ ~s.result.success

\* a run whose claim timed out: two records, nothing after the claim
C5_Witness ==
    \E r \in Reqs :
        /\ rq[r].result.returned
        /\ Len(rq[r].result.operations) = 2
        /\ \E i \in CallsOf(r, "replace") :
              calls[i].kind = "claim" /\ calls[i].error = Timeout

\* C6: in every result of replaceDevice the records are numbered 1, 2, ... (at
\* most 4), none is left in-progress or pending, a successful run has four
\* completed records, and a run that failed while executing step k has exactly
\* k records: 1..k-1 completed, record k failed with the error detail.
C6_OperationsWellFormed ==
    \A r \in Reqs :
        LET res == rq[r].result
            ops == res.operations
            P   == CallsOf(r, "replace")
        IN  res.returned =>
              /\ Len(ops) <= 4
              /\ \A i \in DOMAIN ops :
                    ops[i].step = i /\ ops[i].status \in {"completed", "failed"}
              /\ res.success => (Len(ops) = 4 /\ AllCompleted(ops))
              /\ ~res.success =>
                    IF P = {} THEN ops = <<>>
                    ELSE LET k == calls[Max(P)].step
                         IN  /\ Len(ops) = k
                             /\ \A i \in 1..(k - 1) : ops[i].status = "completed"
                             /\ ops[k].status = "failed"
                             /\ ops[k].error # MsgNone

\* a run that failed in step 3 after steps 1 and 2 completed
C6_Witness ==
    \E r \in Reqs :
        /\ rq[r].result.returned /\ ~rq[r].result.success
        /\ Len(rq[r].result.operations) = 3
        /\ rq[r].result.operations[2].status = "completed"
        /\ rq[r].result.operations[3].status = "failed"

\* C7: replaceDevice returns success:true exactly when its four records are
\* completed, which is exactly when the read of the failed device, the claim
\* (or its already-claimed answer), the base update and the removal all
\* succeeded; a successful result carries a summary.
C7_SuccessIffAllCompleted ==
    \A r \in Reqs :
        LET res == rq[r].result
            ops == res.operations
            P   == CallsOf(r, "replace")
        IN  res.returned =>
              /\ res.success <=> (Len(ops) = 4 /\ AllCompleted(ops))
              /\ res.success => res.summary
              /\ res.success <=>
                    /\ \E i \in P : calls[i].kind = "getDevice" /\ calls[i].ok
                    /\ \E i \in P : ClaimWentThrough(i)
                    /\ \E i \in P : calls[i].kind = "update" /\ calls[i].ok
                    /\ \E i \in P : calls[i].kind = "remove" /\ calls[i].ok
                    /\ \A i \in P : ~StepFailed(i)

\* a replacement through the route that claimed, updated and removed
C7_Witness ==
    \E r \in Reqs :
        /\ rq[r].mode = "replace"
        /\ rq[r].response.sent /\ rq[r].response.success
        /\ rq[r].result.summary
        /\ \E i \in CallsOf(r, "replace") : calls[i].kind = "claim" /\ calls[i].ok

\* C8: a replacement already claimed by the network of the failed device
\* passes validation (the inventory call having answered), and in
\* replaceDevice the already-claimed-here answer to the claim is absorbed:
\* record 2 is completed, step 3 is begun, and after a successful base update
\* the run goes on to the removal.
C8_AlreadyClaimedHereAbsorbed ==
    \A r \in Reqs :
        LET s == rq[r]
            v == s.validation
            P == CallsOf(r, "replace")
        IN  /\ (s.mode \in Routes /\ v.returned /\ s.failedDevice /\ PlatformUntouched
                /\ invOrg[s.replacementSerial] = s.foundOrganizationId
                /\ invNet[s.replacementSerial] = s.networkId
                /\ \A i \in CallsOf(r, "validate") :
                      calls[i].kind = "getInventory" => calls[i].ok)
               => v.success
            /\ \A i \in P : (calls[i].kind = "claim" /\ calls[i].error = ClaimedHere) =>
                  /\ Len(s.operations) >= 3
                  /\ s.operations[2].status = "completed"
                  /\ s.pc = "r_update" \/ \E j \in P : j > i /\ calls[j].kind = "update"
                  /\ \A j \in P : (calls[j].kind = "update" /\ calls[j].ok) =>
                        \/ s.pc \in {"r_putRadio", "r_putPort", "r_remove"}
                        \/ \E k \in P : k > j /\ calls[k].kind = "remove"

\* a replacement through the route that succeeded although the claim was
\* answered already-claimed in this network
C8_Witness ==
    \E r \in Reqs :
        /\ rq[r].mode = "replace"
        /\ rq[r].result.success
        /\ \E i \in CallsOf(r, "replace") :
              calls[i].kind = "claim" /\ calls[i].error = ClaimedHere

\* C9: in step 2 only an already-claimed-in-this-network answer is treated as
\* success; any other claim error fails record 2 and ends the run before any
\* update or removal.
C9_OnlyClaimedHereAbsorbed ==
    \A r \in Reqs :
        LET res == rq[r].result
            P   == CallsOf(r, "replace")
        IN  \A i \in P :
              (calls[i].kind = "claim" /\ ~calls[i].ok /\ calls[i].error # ClaimedHere) =>
                /\ res.returned /\ ~res.success
                /\ Len(res.operations) = 2
                /\ res.operations[2].status = "failed"
                /\ \A j \in P : j <= i

\* C10: a run of replaceDevice that failed in step 3 or 4 ends with the
\* failing update or removal as its last call (nothing is issued to undo the
\* earlier steps): a replacement claimed in step 2 is still claimed by the
\* target network, and a base configuration written in step 3 is still there.
C10_NoRollback ==
    \A r \in Reqs :
        LET s   == rq[r]
            res == s.result
            P   == CallsOf(r, "replace")
            rs  == s.replacementSerial
        IN  (res.returned /\ ~res.success /\ Len(res.operations) \in {3, 4}) =>
              /\ calls[Max(P)].kind \in {"update", "remove"} /\ ~calls[Max(P)].ok
              /\ \A i \in P : calls[i].kind = "remove" => i = Max(P)
              /\ (\E i \in P : calls[i].kind = "claim" /\ calls[i].ok) =>
                    /\ s.argNetworkId \in devNets[rs]
                    /\ invNet[rs] = s.argNetworkId
              /\ (\E i \in P : calls[i].kind = "update" /\ calls[i].ok) =>
                    devName[rs] = s.configName

\* a run that claimed and configured the replacement and then failed to
\* remove the failed device
C10_Witness ==
    \E r \in Reqs :
        /\ rq[r].result.returned /\ ~rq[r].result.success
        /\ Len(rq[r].result.operations) = 4
        /\ \E i \in CallsOf(r, "replace") : calls[i].kind = "claim" /\ calls[i].ok
        /\ \E i \in CallsOf(r, "replace") : calls[i].kind = "update" /\ calls[i].ok

----------------------------------------------------------------------------
(* C12, C14, C15, C16: validateDevices on failure *)

\* the platform reports the serial in no network
Absent(sr) == sr \in Serials /\ devNets[sr] = {}

\* the result of request r is the not-found failure of the search
NotFoundReturned(r) ==
    /\ rq[r].validation.returned
    /\ ~rq[r].validation.success
    /\ IsPrefix(NotFoundWords, rq[r].validation.message)

\* C12: when no network of any configured organization reports the failed
\* serial, validateDevices issues no inventory, network or status call, and
\* its result is success:false with the not-found message, which names every
\* configured organization, those skipped as unreachable included.
C12_NotFoundNamesEveryOrganization ==
    \A r \in Reqs :
        LET s == rq[r]
            V == CallsOf(r, "validate")
        IN  (s.mode \in Routes /\ PlatformUntouched /\ Absent(s.failedSerial)) =>
                /\ \A i \in V : calls[i].kind \in SearchKinds
                /\ s.validation.returned =>
                      /\ NotFoundReturned(r)
                      /\ \A o \in Orgs : Includes(s.validation.message, <<o>>)
                      /\ s.response.sent /\ ~s.response.success

\* a not-found result after organization A was unreachable and skipped
C12_Witness ==
    \E r \in Reqs :
        /\ rq[r].mode = "validate"
        /\ Absent(rq[r].failedSerial)
        /\ NotFoundReturned(r)
        /\ \E i \in CallsOf(r, "validate") :
              calls[i].kind = "getOrganization" /\ calls[i].client = "A" /\ calls[i].fault
        /\ Includes(rq[r].validation.message, <<"A">>)

\* C14 (as stated): when the inventory record of the replacement shows a
\* network other than the one the failed device was found in, validateDevices
\* never returns success, and its failure message names that network.
C14_ConflictNamesNetwork ==
    \A r \in Reqs :
        LET s == rq[r] IN
        (s.mode \in Routes /\ s.validation.returned /\ s.failedDevice) =>
            /\ (PlatformUntouched /\ invNet[s.replacementSerial] \notin {NoNet, s.networkId})
                  => ~s.validation.success
            /\ s.replacementNetworkId \notin {NoNet, s.networkId} =>
                  /\ ~s.validation.success
                  /\ Includes(s.validation.message, <<s.replacementNetworkId>>)

----------------------------------------------------------------------------
\* position of x in a sequence without repetitions
IndexOf(q, x) == CHOOSE i \in DOMAIN q : q[i] = x

Min(S) == CHOOSE x \in S : \A y \in S : x <= y

\* call j is the organization lookup that opens the organization after o
OpensNextOrganization(j, o) ==
    /\ IndexOf(Organizations, o) < Len(Organizations)
    /\ calls[j].kind = "getOrganization"
    /\ calls[j].client = Organizations[IndexOf(Organizations, o) + 1]

\* call j is the device lookup in the network after n of organization o
LooksUpNextNetwork(j, o, n) ==
    /\ IndexOf(NetworksOf(o), n) < Len(NetworksOf(o))
    /\ calls[j].kind = "getDevice"
    /\ calls[j].client = o
    /\ calls[j].net = NetworksOf(o)[IndexOf(NetworksOf(o), n) + 1]

\* C15: in the search of validateDevices a device lookup that fails (404 or
\* otherwise) is followed by the lookup in the next network of the same
\* organization, or after the last network by the next organization; a failed
\* organization or network-list lookup is followed by the next organization;
\* and a search that ends on such a failure returns the not-found message,
\* never the underlying error.
C15_SearchErrorsSkipped ==
    \A r \in Reqs :
        LET s == rq[r]
            V == CallsOf(r, "validate")
        IN  \A i \in V :
                (calls[i].kind \in SearchKinds /\ ~calls[i].ok) =>
                    LET o == calls[i].client
                        n == calls[i].net
                        later == {j \in V : j > i}
                        lastNet == calls[i].kind = "getDevice" =>
                                     IndexOf(NetworksOf(o), n) = Len(NetworksOf(o))
                    IN  IF later # {}
                        THEN LET j == Min(later) IN
                             IF lastNet THEN OpensNextOrganization(j, o)
                             ELSE LooksUpNextNetwork(j, o, n)
                        ELSE s.validation.returned =>
                                /\ lastNet
                                /\ o = Organizations[Len(Organizations)]
                                /\ ~s.validation.success
                                /\ s.validation.message = FailedNotFoundMsg
                                /\ s.validation.message # formatErrorMessage(calls[i].error)

\* a lookup in a1 timed out, the search went on to a2 and found the device,
\* and the validation succeeded
C15_Witness ==
    \E r \in Reqs :
        /\ rq[r].validation.success
        /\ \E i \in CallsOf(r, "validate") :
              /\ calls[i].kind = "getDevice" /\ calls[i].net = "a1" /\ calls[i].fault
              /\ calls[i + 1].kind = "getDevice" /\ calls[i + 1].net = "a2"
              /\ calls[i + 1].ok

----------------------------------------------------------------------------
\* C16: when validateDevices returns the not-found failure, an organization
\* lookup has been issued for every configured organization and, for every
\* organization whose network list was obtained, a device lookup for the
\* failed serial in every one of its networks.
C16_NotFoundOnlyAfterExhaustion ==
    \A r \in Reqs :
        LET s == rq[r]
            V == CallsOf(r, "validate")
        IN  NotFoundReturned(r) =>
                \A o \in Orgs :
                    /\ \E i \in V : calls[i].kind = "getOrganization" /\ calls[i].client = o
                    /\ (\E i \in V : /\ calls[i].kind = "getNetworks"
                                     /\ calls[i].client = o /\ calls[i].ok) =>
                          \A n \in SeqToSet(NetworksOf(o)) :
                              \E i \in V : /\ calls[i].kind = "getDevice"
                                           /\ calls[i].client = o
                                           /\ calls[i].net = n
                                           /\ calls[i].serial = s.failedSerial

\* the not-found failure after a lookup in every network of both organizations
C16_Witness ==
    \E r \in Reqs :
        /\ NotFoundReturned(r)
        /\ \A n \in Nets :
              \E i \in CallsOf(r, "validate") : calls[i].kind = "getDevice" /\ calls[i].net = n

----------------------------------------------------------------------------
(* Vocabulary of the configuration properties *)

\* request r has built the step-3 payload (configData)
Configured(r) == \E i \in CallsOf(r, "replace") : calls[i].step >= 3

\* the last remote call was r's successful base-configuration update
JustUpdated(r) ==
    /\ calls # <<>>
    /\ LET c == calls[Len(calls)]
       IN  c.req = r /\ c.kind = "update" /\ c.ok

\* the replacement markers a text holds
Markers(text) == {i \in DOMAIN text : text[i] = "[Replaced"}

----------------------------------------------------------------------------
\* C11 (as stated): the notes written in step 3 are the failed device's
\* existing notes followed by one new replacement marker; existing note text
\* is never truncated or overwritten.
C11_NotesAlwaysKept ==
    \A r \in Reqs :
        Configured(r) =>
            /\ IsPrefix(rq[r].failedNotes, rq[r].configNotes)
            /\ Cardinality(Markers(rq[r].configNotes))
                 = Cardinality(Markers(rq[r].failedNotes)) + 1

\* C11 (amended): the notes read in step 1 are the platform's; when they hold
\* anything but whitespace, the notes written in step 3 are those notes, a
\* blank and one new marker naming the failed serial, so that earlier markers
\* stay; notes that are absent, empty or whitespace only are replaced by the
\* marker alone.  A successful update stores exactly these notes.
C11_NotesCumulativeUnlessBlank ==
    \A r \in Reqs :
        LET s == rq[r] IN
        /\ s.pc = "r_getRadio" => s.failedNotes = devNotes[s.failedSerial]
        /\ Configured(r) =>
              /\ Cardinality(Markers(s.configNotes))
                   = Cardinality(Markers(s.failedNotes)) + 1
              /\ SubSeq(s.configNotes, Len(s.configNotes) - 3, Len(s.configNotes))
                   = ReplacementNote(s.failedSerial)
              /\ IF \E i \in DOMAIN s.failedNotes : s.failedNotes[i] # Space
                 THEN /\ IsPrefix(s.failedNotes, s.configNotes)
                      /\ Len(s.configNotes) = Len(s.failedNotes) + 5
                 ELSE Len(s.configNotes) = 4
        /\ JustUpdated(r) => devNotes[s.replacementSerial] = s.configNotes

\* a second replacement has written notes that hold the original text, the
\* marker of the first replacement and the marker of the second
C11_Witness ==
    /\ JustUpdated(2)
    /\ rq[1].failedNotes = <<"rack-4">>
    /\ rq[2].failedSerial = rq[1].replacementSerial
    /\ rq[2].failedSerial # rq[1].failedSerial
    /\ devNotes[rq[2].replacementSerial]
         = <<"rack-4", Space>> \o ReplacementNote(rq[1].failedSerial)
             \o <<Space>> \o ReplacementNote(rq[2].failedSerial)

----------------------------------------------------------------------------
\* a wireless / switch-port setting of the failed device was written to the
\* replacement by request r
RadioTransferred(r) ==
    \E i \in CallsOf(r, "replace") : calls[i].kind = "putRadio" /\ calls[i].ok
PortsTransferred(r) ==
    \E i \in CallsOf(r, "replace") : calls[i].kind = "putPort" /\ calls[i].ok

\* C13 (as stated): on full success configurationTypes lists hostname and
\* location/tags, the wireless entry exactly when radio settings were
\* transferred to the replacement, the switch entry exactly when switch-port
\* settings were transferred to it, and neither when the failed device had
\* neither capability.
C13_SummaryListsTransferred ==
    \A r \in Reqs :
        LET res == rq[r].result
            types == SeqToSet(res.configurationTypes)
        IN  res.success =>
                /\ {"Hostname", "Device location and tags"} \subseteq types
                /\ "Wireless radio settings" \in types <=> RadioTransferred(r)
                /\ "Switch port settings" \in types <=> PortsTransferred(r)
                /\ (~rq[r].radioSettings /\ rq[r].switchPorts = -1) =>
                      types = {"Hostname", "Device location and tags"}

----------------------------------------------------------------------------
\* C17 (as stated): the hostname written in step 3 is the failed device's
\* name whenever that name is non-empty, and the replacement's serial
\* otherwise.
C17_HostnameWheneverNonEmpty ==
    \A r \in Reqs :
        Configured(r) =>
            rq[r].configName = IF rq[r].failedName # NoName
                               THEN rq[r].failedName
                               ELSE <<rq[r].replacementSerial>>

\* C17 (amended): the hostname written in step 3 is the failed device's name,
\* unchanged, whenever that name holds anything but whitespace, and the
\* replacement's serial when the name is absent, empty or whitespace only.  A
\* successful update stores exactly this name.
C17_HostnameUnlessBlank ==
    \A r \in Reqs :
        LET s == rq[r] IN
        /\ s.pc = "r_getRadio" => s.failedName = devName[s.failedSerial]
        /\ Configured(r) =>
              s.configName = IF \E i \in DOMAIN s.failedName : s.failedName[i] # Space
                             THEN s.failedName
                             ELSE <<s.replacementSerial>>
        /\ JustUpdated(r) => devName[s.replacementSerial] = s.configName

\* a name with leading whitespace was copied as it is
C17_Witness ==
    /\ JustUpdated(1)
    /\ rq[1].failedName = <<Space, "ap-1">>
    /\ rq[1].failedSerial # rq[1].replacementSerial
    /\ devName[rq[1].replacementSerial] = <<Space, "ap-1">>

----------------------------------------------------------------------------
\* C18: a replaceDevice run hands no record to logOperation before it returns
\* and exactly one when it returns, SUCCESS for a successful run and FAILED
\* for an aborted one; the record is persisted only to a writable log file;
\* and the result is the one the remote calls determine, whatever the log
\* file: success exactly when the last call is the removal and it succeeded,
\* one operations record per step opened, all completed but a failed last
\* one, a summary exactly on success.
C18_OneRecordResultUnaffected ==
    \A r \in Reqs :
        LET s == rq[r]
            res == s.result
            R == CallsOf(r, "replace")
        IN  /\ ~res.returned => s.logged = <<>>
            /\ res.returned =>
                  /\ Len(s.logged) = 1
                  /\ s.logged[1].status = IF res.success THEN "SUCCESS" ELSE "FAILED"
                  /\ s.logged[1].persisted <=> s.logFile = "writable"
                  /\ res.summary <=> res.success
                  /\ IF R = {}
                     THEN ~res.success /\ res.operations = <<>>
                     ELSE LET l == calls[Max(R)] IN
                          /\ res.success <=> (l.kind = "remove" /\ l.ok)
                          /\ Len(res.operations) = l.step
                          /\ \A k \in 1..(l.step - 1) :
                                res.operations[k].status = "completed"
                          /\ res.operations[l.step].status
                               = IF res.success THEN "completed" ELSE "failed"

\* a run that succeeded although its record could not be written
C18_Witness ==
    /\ rq[1].result.success
    /\ rq[1].logFile = "unwritable"
    /\ Len(rq[1].logged) = 1
    /\ ~rq[1].logged[1].persisted

----------------------------------------------------------------------------
\* C20 (as stated): formatErrorMessage translates by status: 429 always gives
\* the rate-limit wording, 403 the forbidden wording, 404 the not-found
\* wording, and any other error gives the underlying error message.
C20_TranslatedByStatus ==
    probe.fn = "formatErrorMessage" =>
        /\ probe.error.status = 429 => probe.message = MsgRateLimit
        /\ probe.error.status = 403 => probe.message = MsgForbidden
        /\ probe.error.status = 404 => probe.message = MsgNotFound
        /\ probe.error.status \notin {429, 403, 404} =>
              probe.message = probe.error.message

\* C20 (amended): when the response carries an errors list, formatErrorMessage
\* gives the first entry of that list whatever the status (undefined for an
\* empty list); only without an errors list does it translate by status: 429
\* gives the rate-limit wording, 403 the forbidden wording, 404 the not-found
\* wording, and any other error the underlying error message.
C20_ErrorsListFirstThenStatus ==
    probe.fn = "formatErrorMessage" =>
        LET error == probe.error IN
        /\ (error.hasErrors /\ error.errors # <<>>) => probe.message = error.errors[1]
        /\ (error.hasErrors /\ error.errors = <<>>) => probe.message = MsgUndefined
        /\ ~error.hasErrors =>
              /\ error.status = 429 => probe.message = MsgRateLimit
              /\ error.status = 403 => probe.message = MsgForbidden
              /\ error.status = 404 => probe.message = MsgNotFound
              /\ error.status \notin {429, 403, 404} =>
                    probe.message = error.message

\* a rate-limited response with an errors list was translated to its first entry
C20_Witness ==
    /\ probe.fn = "formatErrorMessage"
    /\ probe.error.status = 429
    /\ probe.error.errors = <<NotInInventoryMsg, ClaimedHereMsg>>
    /\ probe.message = NotInInventoryMsg

----------------------------------------------------------------------------
\* the bodies the handlers of the router send
RouterBodies ==
    {"format", "validation", "replace", "organizations", "health", "search",
     "organization", "networks"}

\* the messages validateDevices throws itself
ValidationMsgs ==
    {FailedNotFoundMsg, ReplacementNotFoundMsg} \cup {ClaimedByNetworkMsg(n) : n \in Nets}

\* the translations of the errors request r met inside method fn
Translations(r, fn) ==
    {formatErrorMessage(calls[i].error) : i \in {j \in CallsOf(r, fn) : ~calls[j].ok}}

\* C19: every request that ends has been answered, and every answer is a JSON
\* body with a boolean success; a handler of the router answers 200 or 400,
\* never through its catch block, because validateDevices and replaceDevice
\* return: the answer's success is the method's, and a success:false answer
\* carries a message that is one the method threw itself or the translation
\* of the error of one of its remote calls; no message and no step record
\* holds the call frames of an error's stack.
C19_EveryResponseJsonSuccess ==
    \A r \in Reqs :
        LET s == rq[r]
            a == s.response
            m == ResponseMessage(s)
        IN  /\ s.pc = "done" => a.sent
            /\ a.sent =>
                  /\ a.success \in BOOLEAN
                  /\ a.success => a.status = 200
                  /\ IF a.body \in RouterBodies
                     THEN a.status \in {200, 400}
                     ELSE s.mode = "middleware"
                  /\ a.body = "validation" =>
                        /\ s.validation.returned
                        /\ a.success = s.validation.success
                        /\ ~a.success => m \in ValidationMsgs \cup Translations(r, "validate")
                  /\ a.body = "replace" =>
                        /\ s.result.returned
                        /\ a.success = s.result.success
                        /\ ~a.success => m \in Translations(r, "replace")
                  /\ ~a.success => m \notin {MsgNone, MsgUndefined}
                  /\ ~Includes(m, StackFrames)
                  /\ \A k \in DOMAIN s.result.operations :
                        ~Includes(s.result.operations[k].error, StackFrames)

\* POST /replace-device answered success:false with the translation of the
\* timeout its inventory call ended in
C19_Witness ==
    \E r \in Reqs :
        /\ rq[r].mode = "replace"
        /\ rq[r].response.sent
        /\ rq[r].response.status = 200
        /\ ~rq[r].response.success
        /\ ResponseMessage(rq[r]) = Timeout.message
        /\ calls[Len(calls)].kind = "getInventory"
        /\ calls[Len(calls)].fault

----------------------------------------------------------------------------
(* C21..C30 *)

\* XXXX-XXXX-XXXX over alphanumerics
WellFormed == Serials \cup {LowerCase}

\* the serials request r carries and its route reads
SerialsCarried(r) ==
    IF rq[r].mode = "search" THEN {rq[r].params.failedSerial}
    ELSE {rq[r].params.failedSerial, rq[r].params.replacementSerial}

SerialRoutes == {"validate", "replace", "search"}

\* request r was rejected, and no remote call was issued for it
Rejected(r) ==
    /\ rq[r].response.sent
    /\ rq[r].response.status = 400
    /\ ~rq[r].response.success
    /\ \A i \in DOMAIN calls : calls[i].req # r

\* C21 (as stated): a request to /validate-devices, /replace-device or
\* /search-device/:serial in which a serial does not match the pattern is
\* rejected with success:false, and no remote call is issued for it.
C21_MalformedRejected ==
    \A r \in Reqs :
        (rq[r].mode \in SerialRoutes /\ SerialsCarried(r) \ WellFormed # {}) =>
            Rejected(r)

\* C21 (amended): such a request is rejected with success:false and without
\* a remote call when a serial does not match the pattern, where the two POST
\* routes match the serial with its surrounding whitespace removed and
\* /search-device/:serial matches it as given.
C21_MalformedAfterTrimRejected ==
    \A r \in Reqs :
        LET sanitized == IF rq[r].mode = "search" THEN SerialsCarried(r)
                         ELSE {trimSerial(raw) : raw \in SerialsCarried(r)}
        IN  (rq[r].mode \in SerialRoutes /\ sanitized \ WellFormed # {}) =>
                Rejected(r)

\* /search-device/:serial rejected a serial with surrounding whitespace
C21_Witness ==
    \E r \in Reqs :
        /\ rq[r].mode = "search"
        /\ rq[r].params.failedSerial = Padded
        /\ Rejected(r)

----------------------------------------------------------------------------
\* C22: the first remote call of a POST /replace-device request belongs to
\* validateDevices; a call of replaceDevice is issued only after validation
\* has returned success and after every call of the validation; and when the
\* validation returns success:false the response is that result, replaceDevice
\* is not invoked (no step record, no outcome record, no result) and no
\* claim, update or remove call is issued.
C22_ReplaceValidatesFirst ==
    \A r \in Reqs :
        LET s == rq[r]
            mine == {i \in DOMAIN calls : calls[i].req = r}
        IN  s.mode = "replace" =>
              /\ mine # {} => calls[Min(mine)].fn = "validate"
              /\ \A j \in CallsOf(r, "replace") :
                    /\ s.validation.returned /\ s.validation.success
                    /\ \A i \in CallsOf(r, "validate") : i < j
              /\ (s.validation.returned /\ ~s.validation.success) =>
                    /\ s.response.sent
                    /\ s.response.body = "validation"
                    /\ ~s.response.success
                    /\ CallsOf(r, "replace") = {}
                    /\ ~s.result.returned
                    /\ s.operations = <<>> /\ s.logged = <<>>
                    /\ \A i \in mine : calls[i].kind \notin {"claim", "update", "remove"}

\* POST /replace-device answered with the failed validation: the replacement
\* is not in the inventory of the organization of the failed device
C22_Witness ==
    \E r \in Reqs :
        /\ rq[r].mode = "replace"
        /\ rq[r].validation.returned
        /\ rq[r].validation.message = ReplacementNotFoundMsg
        /\ rq[r].response.sent
        /\ rq[r].response.body = "validation"

----------------------------------------------------------------------------
Blank(text) == \A i \in DOMAIN text : text[i] = Space

\* the text without its whitespace
Squeeze(text) == SelectSeq(text, LAMBDA piece : piece # Space)

\* the entry is not an organizationId:credential pair with both parts
LacksPart(entry) == Len(entry) < 2 \/ Blank(entry[1]) \/ Blank(entry[2])

\* C23: constructing the registry fails if MERAKI_ORGS is absent, empty, or
\* holds an entry without an organization id or without a credential;
\* otherwise the registry holds one client per distinct organization id, in
\* the order in which the ids first appear, and an organization entry for
\* each of them; no remote call is issued either way.
C23_RegistryConstruction ==
    probe.fn = "constructor" =>
        LET m == probe.mapping
            reg == probe.registry
            ids == [i \in DOMAIN m.entries |-> Squeeze(m.entries[i][1])]
            first(id) == Min({i \in DOMAIN ids : ids[i] = id})
        IN  /\ calls = <<>>
            /\ ~reg.ok <=> \/ ~m.present
                           \/ m.entries = EmptyString
                           \/ \E i \in DOMAIN m.entries : LacksPart(m.entries[i])
            /\ ~reg.ok => reg.clients = <<>> /\ reg.message # MsgNone
            /\ reg.ok =>
                  /\ SeqToSet(reg.clients) = SeqToSet(ids)
                  /\ \A i, j \in DOMAIN reg.clients :
                        i < j => first(reg.clients[i]) < first(reg.clients[j])
                  /\ Len(reg.organizations) = Len(reg.clients)
                  /\ \A i \in DOMAIN reg.clients :
                        reg.organizations[i].id = reg.clients[i]

\* two entries for organization A, spelled differently, gave one client
C23_Witness ==
    /\ probe.fn = "constructor"
    /\ probe.registry.ok
    /\ Len(probe.mapping.entries) = 2
    /\ probe.registry.clients = << <<"A">> >>
    /\ probe.registry.organizations[1].apiKey = <<"k2">>

----------------------------------------------------------------------------
\* the status of the record of step k, "none" while the step has no record
StatusAt(s, k) ==
    IF k <= Len(s.operations) THEN s.operations[k].status ELSE "none"

StatusChanges(moves) ==
    \A r \in Reqs, k \in 1..4 :
        StatusAt(rq[r], k) # StatusAt(rq'[r], k)
            => <<StatusAt(rq[r], k), StatusAt(rq'[r], k)>> \in moves

\* C24 as stated: every step record moves pending -> in-progress ->
\* completed | failed, starting as pending.
C24_PendingThenInProgress ==
    [][StatusChanges({<<"none", "pending">>, <<"pending", "in-progress">>,
                      <<"in-progress", "completed">>,
                      <<"in-progress", "failed">>})]_vars

\* C24 amended: a step record is created in-progress when its step begins
\* (no record is ever pending), the k-th record is the record of step k, an
\* in-progress record becomes completed or failed and a completed or failed
\* record never changes again; once replaceDevice has returned no record is
\* left in-progress.
C24_InProgressThenTerminal ==
    [][/\ StatusChanges({<<"none", "in-progress">>,
                         <<"in-progress", "completed">>,
                         <<"in-progress", "failed">>})
       /\ \A r \in Reqs :
            /\ Len(rq'[r].operations) <= 4
            /\ \A k \in DOMAIN rq'[r].operations :
                 /\ rq'[r].operations[k].step = k
                 /\ k < Len(rq'[r].operations)
                      => rq'[r].operations[k].status = "completed"
            /\ rq'[r].result.returned
                 => \A k \in DOMAIN rq'[r].operations :
                       rq'[r].operations[k].status \in {"completed", "failed"}]_vars

\* three steps completed and the fourth failed
C24_Witness ==
    \E r \in Reqs :
        /\ rq[r].result.returned
        /\ Len(rq[r].operations) = 4
        /\ \A k \in 1..3 : rq[r].operations[k].status = "completed"
        /\ rq[r].operations[4].status = "failed"

----------------------------------------------------------------------------
\* request r issued a call of this kind after call i
CalledAfter(r, i, kinds) ==
    \E j \in CallsOf(r, "replace") : j > i /\ calls[j].kind \in kinds

\* C25: in step 1 a failed read of the radio settings or of the switch ports
\* (404 or any other error) leaves those settings absent, does not fail
\* step 1 and does not abort the pipeline; step 1 fails exactly when the
\* read of the failed device's own record fails.
C25_Step1BestEffortReads ==
    \A r \in Reqs :
        LET s == rq[r] IN
        /\ \A i \in CallsOf(r, "replace") :
             /\ calls[i].kind = "getRadio" /\ ~calls[i].ok
                  => /\ ~s.radioSettings
                     /\ s.operations[1].status # "failed"
                     /\ s.pc = "r_getSwitchPorts"
                          \/ CalledAfter(r, i, {"getSwitchPorts"})
             /\ calls[i].kind = "getSwitchPorts" /\ ~calls[i].ok
                  => /\ s.switchPorts = -1
                     /\ s.operations[1].status = "completed"
                     /\ s.pc = "r_claim" \/ CalledAfter(r, i, {"claim"})
             /\ calls[i].kind = "getDevice" /\ ~calls[i].ok
                  => s.operations[1].status = "failed"
        /\ Len(s.operations) >= 1 /\ s.operations[1].status = "failed"
             => \E i \in CallsOf(r, "replace") :
                   /\ calls[i].kind = "getDevice" /\ ~calls[i].ok
                   /\ ~CalledAfter(r, i, {"getRadio", "getSwitchPorts", "claim",
                                          "update", "putRadio", "putPort",
                                          "remove"})

\* the radio read timed out, the switch-port read was answered 404, and the
\* replacement completed all the same
C25_Witness ==
    \E r \in Reqs :
        /\ rq[r].result.returned /\ rq[r].result.success
        /\ \E i, j \in CallsOf(r, "replace") :
             /\ calls[i].kind = "getRadio" /\ calls[i].fault
             /\ calls[j].kind = "getSwitchPorts" /\ calls[j].error = NotFound404

----------------------------------------------------------------------------
\* C26: in step 3 the base configuration update comes before every radio or
\* switch-port update; a failed radio or switch-port update neither fails
\* step 3 nor keeps step 4 from opening, a failed radio update does not keep
\* the fetched switch ports from being attempted, and step 3 fails exactly
\* when the base configuration update fails.
C26_Step3BestEffortWrites ==
    \A r \in Reqs :
        LET s == rq[r] IN
        /\ \A i \in CallsOf(r, "replace") :
             /\ calls[i].kind \in {"putRadio", "putPort"}
                  => \E j \in CallsOf(r, "replace") :
                        j < i /\ calls[j].kind = "update" /\ calls[j].ok
             /\ calls[i].kind = "putRadio" /\ ~calls[i].ok
                  => /\ s.operations[3].status # "failed"
                     /\ IF s.switchPorts > 0
                        THEN s.pc = "r_putPort" \/ CalledAfter(r, i, {"putPort"})
                        ELSE Len(s.operations) = 4
             /\ calls[i].kind = "putPort" /\ ~calls[i].ok
                  => /\ s.operations[3].status = "completed"
                     /\ Len(s.operations) = 4
                     /\ s.pc = "r_remove" \/ CalledAfter(r, i, {"remove"})
             /\ calls[i].kind = "update" /\ ~calls[i].ok
                  => s.operations[3].status = "failed"
        /\ Len(s.operations) >= 3 /\ s.operations[3].status = "failed"
             => \E i \in CallsOf(r, "replace") :
                   /\ calls[i].kind = "update" /\ ~calls[i].ok
                   /\ ~CalledAfter(r, i, {"putRadio", "putPort", "remove"})

\* the radio update and then a switch-port update timed out, and the
\* replacement completed
C26_Witness ==
    \E r \in Reqs :
        /\ rq[r].result.returned /\ rq[r].result.success
        /\ \E i, j \in CallsOf(r, "replace") :
             /\ i < j
             /\ calls[i].kind = "putRadio" /\ calls[i].fault
             /\ calls[j].kind = "putPort" /\ calls[j].fault

----------------------------------------------------------------------------
BestEffortKinds == {"getRadio", "getSwitchPorts", "putRadio", "putPort"}

\* the step of call i is marked failed and request r issued no call after it
AbortedAt(r, i) ==
    /\ Len(rq[r].operations) = calls[i].step
    /\ rq[r].operations[calls[i].step].status = "failed"
    /\ rq[r].result.returned /\ ~rq[r].result.success
    /\ \A j \in CallsOf(r, "replace") : j <= i

\* C27 as stated: any call of replaceDevice that times out aborts the
\* pipeline.
C27_AnyTimeoutAborts ==
    \A r \in Reqs : \A i \in CallsOf(r, "replace") :
        calls[i].fault => AbortedAt(r, i)

\* C27 amended: a timeout of the device read, the claim, the base
\* configuration update or the removal aborts the pipeline (its step is
\* marked failed with the timeout as error and nothing is called after it);
\* a timeout of a best-effort call never marks its step failed.
C27_MandatoryTimeoutAborts ==
    \A r \in Reqs : \A i \in CallsOf(r, "replace") :
        calls[i].fault =>
            IF calls[i].kind \in BestEffortKinds
            THEN rq[r].operations[calls[i].step].status # "failed"
            ELSE /\ AbortedAt(r, i)
                 /\ rq[r].operations[calls[i].step].error = Timeout.message

\* the base configuration update timed out after the claim went through
C27_Witness ==
    \E r \in Reqs : \E i \in CallsOf(r, "replace") :
        /\ calls[i].kind = "update" /\ calls[i].fault
        /\ AbortedAt(r, i)
        /\ \E j \in CallsOf(r, "replace") : calls[j].kind = "claim" /\ calls[j].ok

----------------------------------------------------------------------------
\* the record has tags, an address, a floor plan (something to copy)
HasTags(d) == d.tags.has /\ d.tags.v # <<>>
HasAddress(d) == d.address.has /\ ~Blank(d.address.v)
HasFloorPlan(d) == d.floorPlanId.has
\* the record has both coordinates, whatever their value
HasCoordinates(d) == d.lat.has /\ d.lng.has

\* request r has sent the payload of step 3
PayloadSent(r) ==
    \E i \in CallsOf(r, "replace") : calls[i].kind = "update"

\* C28: the payload of step 3 holds tags, address, the coordinate pair and
\* the floor-plan identifier each exactly when the failed device's record has
\* it (the pair: when the record has both latitude and longitude, whatever
\* their value), and each copied value is the failed device's.
C28_PayloadCopiesPresentFields ==
    \A r \in Reqs :
        PayloadSent(r) =>
            LET d == devFields[rq[r].failedSerial]
                c == rq[r].configData
            IN  /\ c.tags.has <=> HasTags(d)
                /\ c.address.has <=> HasAddress(d)
                /\ c.floorPlanId.has <=> HasFloorPlan(d)
                /\ c.lat.has <=> HasCoordinates(d)
                /\ c.lng.has <=> HasCoordinates(d)
                /\ \A f \in DOMAIN c : c[f].has => c[f] = d[f]

----------------------------------------------------------------------------
\* (o1, n1) comes before (o2, n2): organizations in the order of the
\* configuration, networks in the order of the platform's list
Before(o1, n1, o2, n2) ==
    \/ IndexOf(Organizations, o1) < IndexOf(Organizations, o2)
    \/ /\ o1 = o2
       /\ IndexOf(NetworksOf(o1), n1) < IndexOf(NetworksOf(o1), n2)

\* the device lookups of the search of request r
Lookups(r) == {i \in CallsOf(r, "validate") : calls[i].kind = "getDevice"}

\* C29: the search of validateDevices visits organizations in the order of
\* the configuration and networks in the order the platform lists them: its
\* lookups are issued in that order, the match is the last lookup, and when
\* the platform answers every search call the match is the first network in
\* that order that reports the serial.
C29_FirstMatchInOrder ==
    \A r \in Reqs :
        LET s == rq[r] IN
        /\ \A i, j \in Lookups(r) :
             i < j => Before(calls[i].client, calls[i].net,
                             calls[j].client, calls[j].net)
        /\ \A i, j \in CallsOf(r, "validate") :
             (i < j /\ calls[i].kind = "getOrganization"
                    /\ calls[j].kind = "getOrganization")
                 => IndexOf(Organizations, calls[i].client)
                      < IndexOf(Organizations, calls[j].client)
        /\ s.failedDevice =>
             /\ \A i \in Lookups(r) :
                  calls[i].ok <=> i = Max(Lookups(r))
             /\ calls[Max(Lookups(r))].client = s.foundOrganizationId
             /\ calls[Max(Lookups(r))].net = s.networkId
        /\ (s.failedDevice /\ PlatformUntouched
               /\ \A o \in Orgs : Reachable(r, o))
             => \A o \in Orgs : \A n \in SeqToSet(NetworksOf(o)) :
                   DeviceReported(o, n, s.failedSerial)
                       => \/ o = s.foundOrganizationId /\ n = s.networkId
                          \/ Before(s.foundOrganizationId, s.networkId, o, n)

\* the serial is reported by a2 and by b1, every call was answered, and the
\* match is a2
C29_Witness ==
    \E r \in Reqs :
        /\ rq[r].failedDevice /\ PlatformUntouched
        /\ \A o \in Orgs : Reachable(r, o)
        /\ devNets[rq[r].failedSerial] = {"a2", "b1"}
        /\ rq[r].networkId = "a2"

----------------------------------------------------------------------------
\* the device lookups of searchDeviceAcrossOrganizations for request r, and
\* those that answered with data
SearchLookups(r) == {i \in CallsOf(r, "search") : calls[i].kind = "getDevice"}
SearchMatches(r) == {i \in SearchLookups(r) : calls[i].ok}

\* the k-th smallest element of a set of call indices
Kth(S, k) == CHOOSE i \in S : Cardinality({j \in S : j <= i}) = k

\* C30 as stated: the first match of searchDeviceAcrossOrganizations wins, no
\* device lookup follows it and the result holds at most one match.
C30_SearchStopsAtFirstMatch ==
    \A r \in Reqs :
        /\ Len(rq[r].results) <= 1
        /\ \A i \in SearchMatches(r) : \A j \in SearchLookups(r) : j <= i

\* C30 amended: searchDeviceAcrossOrganizations visits the (organization,
\* network) pairs sequentially in configuration order and does not stop at a
\* match: its result lists every lookup that answered with data, in the
\* order of the visit, and when it answers, every network of every
\* organization whose listing calls were answered has been looked up.
C30_SearchCollectsEveryMatch ==
    \A r \in Reqs :
        LET s == rq[r] IN
        /\ \A i, j \in SearchLookups(r) :
             i < j => Before(calls[i].client, calls[i].net,
                             calls[j].client, calls[j].net)
        /\ Len(s.results) = Cardinality(SearchMatches(r))
        /\ \A k \in DOMAIN s.results :
             s.results[k] = [organizationId |-> calls[Kth(SearchMatches(r), k)].client,
                             networkId |-> calls[Kth(SearchMatches(r), k)].net]
        /\ (s.mode = "search" /\ s.response.sent /\ s.response.body = "search")
             => \A o \in Orgs :
                   (\A i \in CallsOf(r, "search") :
                       (calls[i].client = o /\ calls[i].kind # "getDevice")
                           => calls[i].ok)
                   => \A n \in SeqToSet(NetworksOf(o)) :
                         \E i \in SearchLookups(r) :
                             calls[i].client = o /\ calls[i].net = n

\* the search answered with two matches, a1 of A and b1 of B
C30_Witness ==
    \E r \in Reqs :
        /\ rq[r].mode = "search" /\ rq[r].response.sent
        /\ rq[r].results = <<[organizationId |-> "A", networkId |-> "a1"],
                             [organizationId |-> "B", networkId |-> "b1"]>>

----------------------------------------------------------------------------
(* C31..C39 *)

\* the status fetches of request r
StatusFetches(r) == {i \in CallsOf(r, "validate") : calls[i].kind = "getStatuses"}

\* C31: whether the live-status fetch succeeds or fails, validateDevices
\* returns success; the failed device is enriched exactly when the fetch
\* succeeded, and the replacement device, networkId, organizationId and
\* organizationName of the result are those found before the fetch.
C31_EnrichmentNonFatal ==
    \A r \in Reqs : \A i \in StatusFetches(r) :
        LET v == rq[r].validation IN
        /\ v.returned /\ v.success
        /\ v.enriched <=> calls[i].ok
        /\ v.failed = rq[r].failedSerial
        /\ v.replacement = rq[r].replacementSerial
        /\ v.networkId = rq[r].networkId
        /\ v.organizationId = rq[r].foundOrganizationId
        /\ v.organizationId = calls[i].client
        /\ v.organizationName = OrganizationName(calls[i].client)
        /\ rq[r].mode = "validate" => rq[r].response.success

\* the status fetch timed out and the validate request answered success
C31_Witness ==
    \E r \in Reqs : \E i \in StatusFetches(r) :
        /\ calls[i].fault
        /\ rq[r].mode = "validate"
        /\ rq[r].response.sent /\ rq[r].response.success
        /\ ~rq[r].validation.enriched

----------------------------------------------------------------------------
\* request r has passed validation and has issued a call that changes the
\* platform
Mutating(r) ==
    /\ rq[r].validation.success
    /\ \E i \in CallsOf(r, "replace") : calls[i].kind \in {"claim", "update", "remove"}

\* the removals of the failed device that the platform accepted
RemovalsAccepted ==
    {i \in DOMAIN calls : calls[i].kind = "remove" /\ calls[i].ok}

\* the result of replaceDevice is well-formed: success iff all four steps are
\* recorded completed, otherwise the last record is the only failed one
WellFormedResult(res) ==
    /\ res.success \in BOOLEAN
    /\ res.success <=> (Len(res.operations) = 4 /\ AllCompleted(res.operations))
    /\ ~res.success =>
          /\ res.message # MsgNone
          /\ \A k \in DOMAIN res.operations :
                res.operations[k].status =
                    IF k = Len(res.operations) THEN "failed" ELSE "completed"

\* C32: two concurrent POST /replace-device requests for the same pair are
\* not kept apart, and in every interleaving each request that has answered
\* has answered with a well-formed result (the validation result, or the
\* result of replaceDevice with the same success), and both answer
\* success:true only if the platform accepted the removal of the failed
\* device twice.
C32_ConcurrentReplacements ==
    /\ \A r \in Reqs :
         rq[r].response.sent =>
            /\ rq[r].response.status = 200
            /\ rq[r].response.body \in {"validation", "replace"}
            /\ rq[r].response.body = "validation"
                 => (~rq[r].response.success /\ ~rq[r].validation.success
                       /\ rq[r].validation.message # MsgNone
                       /\ ~rq[r].result.returned)
            /\ rq[r].response.body = "replace"
                 => (rq[r].result.returned
                       /\ rq[r].response.success = rq[r].result.success
                       /\ WellFormedResult(rq[r].result))
    /\ (\A r \in Reqs : rq[r].response.sent /\ rq[r].response.success)
         => Cardinality(RemovalsAccepted) >= 2

\* both requests passed validation, both issued claim, update or remove
\* calls, and both have answered
C32_Witness ==
    \A r \in Reqs : Mutating(r) /\ rq[r].response.sent

----------------------------------------------------------------------------
\* the calls that read from the platform
ReadKinds ==
    {"getOrganization", "getNetworks", "getDevice", "getInventory",
     "getNetwork", "getStatuses"}

\* this step issued a call
Issued == Len(calls') = Len(calls) + 1

\* C33: validateDevices only reads: every call it issues is a read and
\* leaves the platform as it was, and a validate request never issues a
\* claim, update or remove call, so while only validate requests are served
\* device ownership and configuration do not change.
C33_ValidateReadOnly ==
    [][/\ (Issued /\ calls'[Len(calls')].fn = "validate")
            => (calls'[Len(calls')].kind \in ReadKinds /\ UNCHANGED platform)
       /\ \A r \in Reqs :
            rq'[r].mode = "validate"
                => \A i \in DOMAIN calls' :
                      calls'[i].req = r => (calls'[i].fn = "validate"
                                             /\ calls'[i].kind \in ReadKinds)
       /\ (\A r \in Reqs : rq'[r].mode \in {"none", "validate"})
            => UNCHANGED platform]_vars

\* a validate request went through every read and answered success
C33_Witness ==
    \E r \in Reqs :
        /\ rq[r].mode = "validate"
        /\ rq[r].response.sent /\ rq[r].response.success
        /\ StatusFetches(r) # {}

----------------------------------------------------------------------------
\* the switch-port updates of request r
PortUpdates(r) == {i \in CallsOf(r, "replace") : calls[i].kind = "putPort"}

\* C34: the switch ports fetched in step 1 are updated one at a time in the
\* order fetched: the k-th update is the update of the k-th port; no update
\* follows one that failed, step 3 is then recorded completed and step 4
\* opens; when no update failed, every fetched port has been updated by the
\* time step 4 opens.
C34_PortsInOrderUntilFailure ==
    \A r \in Reqs :
        LET s == rq[r]
            P == PortUpdates(r)
        IN  /\ \A i \in P :
                 /\ calls[i].port = Cardinality({j \in P : j <= i})
                 /\ calls[i].port <= s.switchPorts
                 /\ ~calls[i].ok =>
                       /\ \A j \in P : j <= i
                       /\ Len(s.operations) = 4
                       /\ s.operations[3].status = "completed"
                       /\ s.pc = "r_remove" \/ CalledAfter(r, i, {"remove"})
            /\ (Len(s.operations) = 4 /\ s.switchPorts > 0
                   /\ \A i \in P : calls[i].ok)
                 => Cardinality(P) = s.switchPorts

\* two ports were fetched, the update of the first one failed, the second
\* was not attempted and the replacement completed
C34_Witness ==
    \E r \in Reqs :
        /\ rq[r].switchPorts = 2
        /\ Cardinality(PortUpdates(r)) = 1
        /\ \E i \in PortUpdates(r) : ~calls[i].ok
        /\ rq[r].result.returned /\ rq[r].result.success

----------------------------------------------------------------------------
\* replaceDevice was called by request r for an organization without client
UnknownOrganization(r) ==
    /\ rq[r].mode = "direct"
    /\ rq[r].argOrganizationId \notin Orgs

\* C35: replaceDevice called for an organization that has no client issues
\* no remote call and returns success:false with the getClient message and
\* an empty operations sequence, and exactly one outcome record, FAILED, has
\* been handed to logOperation (whatever the state of the log file).
C35_UnknownOrganizationFails ==
    \A r \in Reqs :
        UnknownOrganization(r) =>
            /\ \A i \in DOMAIN calls : calls[i].req # r
            /\ rq[r].result.returned /\ ~rq[r].result.success
            /\ rq[r].result.message = NoClientMsg
            /\ rq[r].result.operations = <<>>
            /\ rq[r].operations = <<>>
            /\ Len(rq[r].logged) = 1
            /\ rq[r].logged[1].status = "FAILED"

\* the call for the unknown organization returned while the log file could
\* not be written
C35_Witness ==
    \E r \in Reqs :
        /\ UnknownOrganization(r)
        /\ rq[r].result.returned
        /\ rq[r].logFile = "unwritable"
        /\ rq[r].logged # <<>>

----------------------------------------------------------------------------
\* the calls of getAllOrganizationsInfo for request r to organization o
OrgCalls(r, o) == {i \in CallsOf(r, "organizations") : calls[i].client = o}

\* C36: getAllOrganizationsInfo never fails as a whole: its list holds one
\* entry per organization visited, in configuration order; an entry is
\* accessible exactly when both the organization and its network list were
\* fetched, and otherwise carries the translation of the error met; when the
\* route answers, it answers 200 success with one entry per configured
\* organization, and /health reports their number and the number of
\* accessible ones.
C36_OneEntryPerOrganization ==
    \A r \in Reqs :
        LET s == rq[r] IN
        s.mode \in {"organizations", "health"} =>
            /\ Len(s.organizations) <= Len(Organizations)
            /\ \A k \in DOMAIN s.organizations :
                 LET entry == s.organizations[k]
                     o == Organizations[k]
                 IN  /\ entry.id = o
                     /\ entry.accessible <=>
                           /\ \E i \in OrgCalls(r, o) :
                                 calls[i].kind = "getOrganization" /\ calls[i].ok
                           /\ \E i \in OrgCalls(r, o) :
                                 calls[i].kind = "getNetworks" /\ calls[i].ok
                     /\ entry.accessible => entry.error = MsgNone
                     /\ ~entry.accessible =>
                           \E i \in OrgCalls(r, o) :
                               /\ ~calls[i].ok
                               /\ entry.error = formatErrorMessage(calls[i].error)
                     /\ Cardinality(OrgCalls(r, o)) <= 2
            /\ s.response.sent =>
                 /\ s.response.status = 200 /\ s.response.success
                 /\ Len(s.organizations) = Len(Organizations)
                 /\ s.mode = "health" =>
                       /\ s.health.total = Len(Organizations)
                       /\ s.health.accessible =
                             Cardinality({k \in DOMAIN s.organizations :
                                             s.organizations[k].accessible})

\* /health answered with one organization accessible out of two
C36_Witness ==
    \E r \in Reqs :
        /\ rq[r].mode = "health" /\ rq[r].response.sent
        /\ rq[r].health = [total |-> 2, accessible |-> 1]
        /\ ~rq[r].organizations[1].accessible

----------------------------------------------------------------------------
\* the positions of the credential whose character the masked text shows
Disclosed(apiKey, head, tail) ==
    {i \in 1..Len(apiKey) : i <= Len(head) \/ i > Len(apiKey) - Len(tail)}

\* C37: the masked credential shows at most the first 6 and the last 4
\* characters of the credential and, whatever the length of the credential,
\* does not show every character of it.
C37_MaskNeverDisclosesAll ==
    probe.fn = "apiKeyMasked" =>
        /\ Len(probe.head) <= 6 /\ IsPrefix(probe.head, probe.apiKey)
        /\ Len(probe.tail) <= 4
        /\ probe.tail = SubSeq(probe.apiKey,
                               Len(probe.apiKey) - Len(probe.tail) + 1,
                               Len(probe.apiKey))
        /\ probe.masked = probe.head \o Ellipsis \o probe.tail
        /\ Disclosed(probe.apiKey, probe.head, probe.tail) # 1..Len(probe.apiKey)

----------------------------------------------------------------------------
\* where a handler waits inside validateDevices, inside replaceDevice
ValidatePcs ==
    {"v_getOrganization", "v_getNetworks", "v_getDevice", "v_getInventory",
     "v_getClaimedNetwork", "v_getStatuses"}
ReplacePcs ==
    {"r_getDevice", "r_getRadio", "r_getSwitchPorts", "r_claim", "r_update",
     "r_putRadio", "r_putPort", "r_remove"}

\* what a call asks of the platform
Asked(c) == <<c.req, c.fn, c.kind, c.client, c.net, c.serial, c.port>>

\* no request has asked the same thing twice
NoRetry ==
    \A i, j \in DOMAIN calls : (i # j) => Asked(calls[i]) # Asked(calls[j])

\* a step issues at most one call, on behalf of a request that was waiting at
\* an await, and no other request moves in that step
OneAtATime ==
    /\ Len(calls') <= Len(calls) + 1
    /\ Issued =>
          LET r == calls'[Len(calls')].req IN
          /\ calls' = Append(calls, calls'[Len(calls')])
          /\ rq[r].pc \in ValidatePcs \cup ReplacePcs
          /\ rq'[r].pc # rq[r].pc \/ rq'[r] # rq[r]
          /\ \A q \in Reqs \ {r} : rq'[q] = rq[q]

\* C38: when every remote call is answered, every invocation of
\* validateDevices and of replaceDevice eventually returns a result; the
\* calls of a request are issued one per step, each by a handler waiting at
\* an await, and no call is issued twice.
C38_ReturnsSequentiallyNoRetry ==
    /\ [][OneAtATime]_vars
    /\ []NoRetry
    /\ \A r \in Reqs :
         /\ (rq[r].pc \in ValidatePcs) ~> rq[r].validation.returned
         /\ (rq[r].pc \in ReplacePcs) ~> rq[r].result.returned

\* a replacement went through validation and all four steps, the last call
\* being the removal
C38_Witness ==
    \E r \in Reqs :
        /\ rq[r].mode = "replace"
        /\ rq[r].validation.returned /\ rq[r].result.returned
        /\ calls # <<>> /\ calls[Len(calls)].kind = "remove"
        /\ \E i \in DOMAIN calls : calls[i].kind = "putPort" /\ calls[i].port = 2

----------------------------------------------------------------------------
\* C39: in the page, the Replace button is enabled only if the
\* validate-devices request that completed last returned success:true and no
\* replace-device request has completed since.
C39_ReplaceEnabledOnlyAfterValidation ==
    ~portal.replaceBtn.disabled =>
        (portal.last = "success" /\ ~portal.replaced)

====
